---- MODULE Spec2Model ----
(***************************************************************************)
(* Model of Infobserve/processor-rs: the feeder / processor / loader       *)
(* pipeline, its two crossbeam channels, the transactional write of a      *)
(* ProcessedEvent and the coordinator (main) with its shutdown order.      *)
(*                                                                         *)
(* The specifications share the same thread actions:                       *)
(*   SpecMain     main() exactly as written in src/src/main.rs, from the   *)
(*                creation of the channels: it never declares `mod feeder` *)
(*                and never calls start_feeders.                           *)
(*   SpecMainFair SpecMain with weak fairness of its steps.                *)
(*   Spec         main() with start_feeders(&feed_sendr, ..) called right  *)
(*                after the channels are created, i.e. the three-stage     *)
(*                pipeline that main.rs:1-13 documents; everything after   *)
(*                that call is main() as written.                          *)
(*   SpecPools    the same program with every pool size from 0 to MaxPool  *)
(*                and nothing on the external queue.                       *)
(*   SpecDoc      the creator thread of the start_processors doc example   *)
(*                (processing.rs:33-60): it sends events itself, drops both *)
(*                senders together and then joins the processors.          *)
(*   SpecClosed   such a creator thread that also closes the receiving side *)
(*                of the load channel.                                     *)
(*   SpecFeeders  the creator thread of the start_feeders doc example      *)
(*                (feeder.rs:31-42): two feeders, then the joins.          *)
(*   SpecDecode   the same with one feeder and one envelope on the list.   *)
(*   SpecConfig   main() up to the configuration load (main.rs:77-83).     *)
(*   SpecScenario SpecMain started with an event and a QUIT on the         *)
(*                external queue.                                          *)
(*   SpecDrain    Spec with one loader and fewer kinds of payload;           *)
(*                SpecDrainFair schedules its processors fairly.           *)
(*   SpecPanic    SpecDrain with processor threads that may panic;            *)
(*                SpecPanicFair schedules the program's steps fairly.      *)
(*   SpecProbe    Spec with one thread of each kind and one event, for every *)
(*                answer of the matching engine in ProbeAnswers.           *)
(*   SpecFaults   SpecFeeders with connections to the external queue that  *)
(*                break and a creator thread that drops the feed channel's *)
(*                receiver; SpecFaultsFair adds weak fairness.  In the     *)
(*                other specifications a connection, once made, stays up.  *)
(*   SpecStats    the steps of the unit tests of Stats.                    *)
(***************************************************************************)
EXTENDS Integers, Sequences, FiniteSets, TLC

\* ------------------------------------------------------------------ bounds
NumFeeders == 1
NumProcessors == 2
NumLoaders == 2
\* most payloads other than QUIT the external producer pushes
MaxPayloads == 2

\* the value of a failed Result, never inspected
Null == "null"
\* Option<i32>
None == [some |-> FALSE]
Some(x) == [some |-> TRUE, v |-> x]
\* a thread's message slot when it holds no message
NoMsg == [uid |-> 0]

VARIABLES
    redis,        \* the redis list "events": payloads not yet popped
    yara_dir,     \* the files under cfg.yara_rule_dir()
    yml,          \* the configuration document main is started with
    cpus,         \* num_cpus::get(): the machine's logical CPUs
    cfg,          \* main's cfg: the result of Config::from_file, None before
    feedq,        \* F-P channel buffer (crossbeam unbounded, FIFO)
    loadq,        \* P-L channel buffer (crossbeam unbounded, FIFO)
    feed_sendr,   \* main's feed_sendr is alive
    load_sendr,   \* main's load_sendr is alive
    program,      \* the coordinator's statements
    main_pc,      \* the coordinator's position in program
    loop_i,       \* passes done of the coordinator's current loop
    feeder,       \* feeder threads (history: quits, the number of QUIT payloads
                  \* the thread popped, and last, the payload it popped last)
    proc,         \* processor threads
    loader,       \* loader threads
    db,           \* committed rows of the relational store
    seqs,         \* the store's id sequences
    p_recvd,      \* history: events each processor received, in order
    p_sent,       \* history: sends each processor attempted, in order
    l_taken,      \* history: ProcessedEvents each loader received, in order
    f_sent        \* history: events pushed on the feed channel, in order

vars == <<redis, yara_dir, yml, cpus, cfg, feedq, loadq, feed_sendr, load_sendr, program, main_pc, loop_i,
          feeder, proc, loader, db, seqs, p_recvd, p_sent, l_taken, f_sent>>

envVars == <<redis, yara_dir, yml, cpus, cfg>>
chanVars == <<feedq, loadq>>
mainVars == <<feed_sendr, load_sendr, program, main_pc, loop_i>>
dbVars == <<db, seqs>>
histVars == <<p_recvd, p_sent, l_taken, f_sent>>

\* the worker pools: the threads the start functions are asked to spawn
Feeders == DOMAIN feeder
Processors == DOMAIN proc
Loaders == DOMAIN loader
\* the count arguments of start_feeders, start_processors and start_loaders
num_feeders == Cardinality(Feeders)
num_processors == Cardinality(Processors)
num_loaders == Cardinality(Loaders)

\* ------------------------------------------------------- integer widths
\* usize is modelled UsizeBits wide (TLC integers are 32 bit)
UsizeBits == 16
UsizeRange == 2 ^ UsizeBits

\* `x as usize` for an i64 x
as_usize(x) == x % UsizeRange

\* --------------------------------------------------- the matching engine
\* Match.data of the yara crate: raw bytes; utf8 says whether they decode
Bytes(text) == [utf8 |-> TRUE, text |-> text]
BadBytes(text) == [utf8 |-> FALSE, text |-> text]

from_utf8_lossy(b) == [ok |-> TRUE, val |-> b.text]
\* str::from_utf8
from_utf8(b) == IF b.utf8 THEN [ok |-> TRUE, val |-> b.text] ELSE [ok |-> FALSE, val |-> Null]

YrString(matches) == [matches |-> matches]
Rule(ns, ident, tags, strings) ==
    [namespace |-> ns, identifier |-> ident, tags |-> tags, strings |-> strings]

\* raw_content values the external producer sends
Contents == {"foo", "pw: helloworld", "pw: a key: b", "slow"}

\* the engine's answers the conversion to FlatMatch is tried on: a rule file
\* whose rules report, on the content "probe", any rule with up to MaxStrings
\* strings of up to MaxMatches matches each, valid UTF-8 ("a", "b", repeated
\* or not) or not; or two rules of one string each
MaxMatches == 2
MaxStrings == 2
Fragments == {Bytes("a"), Bytes("b"), BadBytes("x")}
SeqsUpTo(S, n) == UNION {[1..k -> S] : k \in 0..n}
ProbeStrings == {YrString(m) : m \in SeqsUpTo(Fragments, MaxMatches)}
ProbeAnswers ==
    {<<Rule("default", "MyPass", <<>>, s)>> : s \in SeqsUpTo(ProbeStrings, MaxStrings)}
    \cup {<<Rule("default", "MyPass", <<"secret">>, <<s[1]>>), Rule("keys", "Key", <<>>, <<s[2]>>)>> :
              s \in ProbeStrings \X ProbeStrings}
ProbeDirs == {{[path |-> "yara-rules/probe.yar", ext |-> "yar", answer |-> a]} :
                 a \in ProbeAnswers}
\* what the rules compiled from dir report on the content "probe"
ProbeAnswer(dir) == (CHOOSE f \in {g \in dir : g.ext = "yar"} : TRUE).answer

\* Rules::scan_mem(bytes, 10): the engine is a black box; its answer for each
\* content is tabulated.  "slow" exceeds the engine's timeout.
scan_mem(filestr) ==
    CASE filestr = "slow" -> [ok |-> FALSE, rules |-> <<>>]
      [] filestr = "probe" -> [ok |-> TRUE, rules |-> ProbeAnswer(yara_dir)]
      [] filestr = "foo" -> [ok |-> TRUE, rules |-> <<>>]
      [] filestr = "pw: helloworld" ->
            [ok |-> TRUE, rules |->
                << Rule("default", "MyPass", <<>>,
                        << YrString(<< Bytes("pw: helloworld") >>) >>) >>]
      [] OTHER ->
            [ok |-> TRUE, rules |->
                << Rule("default", "MyPass", <<"secret">>,
                        << YrString(<< BadBytes("pw: a"), Bytes("pw: a key: b") >>),
                           YrString(<<>>) >>),
                   Rule("keys", "Key", <<>>, << YrString(<< BadBytes("key: b") >>) >>) >>]

\* ------------------------------------------------------------ FlatMatch
RECURSIVE DecodeAll(_)
\* the loop of FlatMatch::new: keep, in order, the byte arrays that decode
DecodeAll(matches) ==
    IF matches = <<>> THEN <<>>
    ELSE LET r == from_utf8(Head(matches))
         IN  (IF r.ok THEN <<r.val>> ELSE <<>>) \o DecodeAll(Tail(matches))

FlatMatch_new(rule_name, tags, matches) ==
    [rule_name |-> rule_name, tags |-> tags, data |-> DecodeAll(matches)]

RECURSIVE ByteData(_)
\* the loop of FlatMatch::from_rule over rule.strings
ByteData(rule_strings) ==
    IF rule_strings = <<>> THEN <<>>
    ELSE LET rule_string == Head(rule_strings)
         IN  (IF rule_string.matches = <<>> THEN <<>>
              ELSE [i \in 1..Len(rule_string.matches) |-> rule_string.matches[i]])
             \o ByteData(Tail(rule_strings))

FlatMatch_from_rule(rule) ==
    FlatMatch_new(rule.namespace \o "::" \o rule.identifier, rule.tags, ByteData(rule.strings))

FlatMatch_from_rules(rules) ==
    [i \in 1..Len(rules) |-> FlatMatch_from_rule(rules[i])]

\* Processor::process
process(filestr) ==
    LET r == scan_mem(filestr)
    IN  IF r.ok THEN [ok |-> TRUE, m |-> FlatMatch_from_rules(r.rules)]
        ELSE [ok |-> FALSE, m |-> <<>>]

\* -------------------------------------------------------- configuration
\* i32 is modelled I32Bits wide and a YAML integer (i64) ranges a little past
\* twice that width, so that `as i32` has values to truncate
I32Bits == 4
I32Max == 2 ^ (I32Bits - 1) - 1
I32Min == -(2 ^ (I32Bits - 1))
YamlInts == (-(2 ^ I32Bits) - 1)..(2 ^ I32Bits + 1)

as_i32_saturating(x) == IF x > I32Max THEN I32Max ELSE IF x < I32Min THEN I32Min ELSE x
\* `x as i32` for an i64 x: the low bits, as a signed number
as_i32(x) == ((x - I32Min) % (2 ^ I32Bits)) + I32Min
\* `x as i32` for an f32 x that is a whole number: saturating
f32_as_i32(x) == IF x > I32Max THEN I32Max ELSE IF x < I32Min THEN I32Min ELSE x

DEFAULT_NUM_PROCESSORS == 1
DEFAULT_NUM_FEEDERS == 1
DEFAULT_NUM_LOADERS == 1
\* the shares of the CPUs, in hundredths (0.25, 0.5, 0.25)
FEED_WORKER_PERC == 25
PROC_WORKER_PERC == 50
LOAD_WORKER_PERC == 25

\* yaml_rust::Yaml: an integer, a string, the `workers` hash, or BadValue (what
\* indexing gives for a key that is absent or a value that is no hash)
YInt(n) == [t |-> "int", v |-> n]
YStr(str) == [t |-> "str", v |-> str]
YBad == [t |-> "bad"]
YHash(processors, feeders, loaders) ==
    [t |-> "hash", processors |-> processors, feeders |-> feeders, loaders |-> loaders]

\* Yaml::as_str, Yaml::as_i64 and Index<&str>
as_str(y) == IF y.t = "str" THEN Some(y.v) ELSE None
as_i64(y) == IF y.t = "int" THEN Some(y.v) ELSE None
yaml_index(y, key) == IF y.t = "hash" THEN y[key] ELSE YBad

\* Option::unwrap_or
unwrap_or(opt, default) == IF opt.some THEN opt.v ELSE default

\* WorkerCfg::int_or_default
int_or_default(block, default) == as_i32(unwrap_or(as_i64(block), default))

\* utils::clamp_min, imported by config.rs; utils.rs does not define it
clamp_min(x, min) == IF x < min THEN min ELSE x

floor_perc_up(overall_cpus, perc) == (overall_cpus * perc + 99) \div 100
\* (overall_cpus as f32 * PERC).floor() as i32
floor_perc(overall_cpus, perc) == f32_as_i32((overall_cpus * perc) \div 100)

WorkerCfg(num_processors_, num_feeders_, num_loaders_) ==
    [num_processors |-> num_processors_, num_feeders |-> num_feeders_,
     num_loaders |-> num_loaders_]

\* WorkerCfg::with_calculated_threads
with_calculated_threads(overall_cpus) ==
    WorkerCfg(clamp_min(floor_perc(overall_cpus, PROC_WORKER_PERC), 1),
              clamp_min(floor_perc(overall_cpus, FEED_WORKER_PERC), 1),
              clamp_min(floor_perc(overall_cpus, LOAD_WORKER_PERC), 1))

is_auto_any(b) == TRUE
\* WorkerCfg::from_block: `b == "auto"`
is_auto(b) == b = "auto"

\* WorkerCfg::from_block; overall_cpus is what num_cpus::get() returns
WorkerCfg_from_block(block, overall_cpus) ==
    IF as_str(block).some
    THEN LET b == as_str(block).v
         IN  IF is_auto(b)
             THEN [ok |-> TRUE, val |-> with_calculated_threads(overall_cpus)]
             ELSE [ok |-> FALSE, val |-> Null, err |-> "BadWorkersKeyValue", arg |-> b]
    ELSE LET num_processors_ ==
                 int_or_default(yaml_index(block, "processors"), DEFAULT_NUM_PROCESSORS)
             num_feeders_ == int_or_default(yaml_index(block, "feeders"), DEFAULT_NUM_FEEDERS)
             num_loaders_ == int_or_default(yaml_index(block, "loaders"), DEFAULT_NUM_LOADERS)
         IN  IF num_processors_ <= 0 \/ num_feeders_ <= 0 \/ num_loaders_ <= 0
             THEN [ok |-> FALSE, val |-> Null, err |-> "NegativeWorkersError", arg |-> ""]
             ELSE [ok |-> TRUE, val |-> WorkerCfg(num_processors_, num_feeders_, num_loaders_)]

\* a configuration file: whether fs::read_to_string can read it, what kind of
\* text it holds and, for a text with a document, that document's `workers`
YamlTexts == {"document", "empty", "malformed"}
YamlFile(readable, text, workers) ==
    [readable |-> readable, text |-> text, workers |-> workers]

\* YamlLoader::load_from_str: the documents of a text, or a scan error
load_from_str(file) ==
    IF file.text = "malformed"
    THEN [ok |-> FALSE, val |-> Null, err |-> "ScanError", arg |-> ""]
    ELSE [ok |-> TRUE,
          val |-> IF file.text = "empty" THEN <<>> ELSE <<[workers |-> file.workers]>>]

\* impl Default for WorkerCfg, impl Default for Config
WorkerCfg_default ==
    WorkerCfg(DEFAULT_NUM_PROCESSORS, DEFAULT_NUM_FEEDERS, DEFAULT_NUM_LOADERS)
Config_default == [worker_cfg |-> WorkerCfg_default]

\* Config::from_string
Config_from_string(file, overall_cpus) ==
    LET docs == load_from_str(file)
    IN  IF ~docs.ok THEN docs
        ELSE IF docs.val = <<>> THEN [ok |-> TRUE, val |-> Config_default]
        ELSE LET worker_cfg == WorkerCfg_from_block(docs.val[1].workers, overall_cpus)
             IN  IF worker_cfg.ok
                 THEN [ok |-> TRUE, val |-> [worker_cfg |-> worker_cfg.val]]
                 ELSE worker_cfg

\* Config::from_file with an unreadable file taken for an error
Config_from_file_strict(file, overall_cpus) ==
    IF file.readable THEN Config_from_string(file, overall_cpus)
    ELSE [ok |-> FALSE, val |-> Null, err |-> "io", arg |-> ""]

\* Config::from_file
Config_from_file(file, overall_cpus) ==
    IF file.readable THEN Config_from_string(file, overall_cpus)
    ELSE [ok |-> TRUE, val |-> Config_default]

\* ------------------------------------------------------ envelope decoder
JStr(s) == [t |-> "str", v |-> s]
JInt(n) == [t |-> "int", v |-> n]
JNull == [t |-> "null"]

\* DATETIME_FMT = "%Y/%m/%d-%H:%M:%S": the strings that parse, with their value
WellFormed == {"2021/03/04-05:06:07"}
parse_from_str(c) ==
    IF c \in WellFormed
    THEN [ok |-> TRUE, val |-> [y |-> 2021, mo |-> 3, d |-> 4, h |-> 5, mi |-> 6, s |-> 7]]
    ELSE [ok |-> FALSE, val |-> Null]

get_str_or_empty(json, field_name) ==
    IF json[field_name].t = "str" THEN [ok |-> TRUE, val |-> json[field_name].v]
    ELSE [ok |-> TRUE, val |-> ""]
\* Event::get_str / Event::get_i64
get_str(json, field_name) ==
    IF json[field_name].t = "str" THEN [ok |-> TRUE, val |-> json[field_name].v]
    ELSE [ok |-> FALSE, val |-> Null]
get_i64(json, field_name) ==
    IF json[field_name].t = "int" THEN [ok |-> TRUE, val |-> json[field_name].v]
    ELSE [ok |-> FALSE, val |-> Null]

\* Event::from_json_str.  A payload is a record: text is "QUIT", "garbage" (text
\* that is not JSON) or "json", and a JSON object carries its fields.  uid is
\* not data of the program: it names the payload so that histories can tell
\* two equal events apart.
IsJson(payload) == payload.text = "json"
from_json_str(json_str) ==
    IF ~IsJson(json_str) THEN [ok |-> FALSE, val |-> Null]
    ELSE LET json == json_str
             url == get_str(json, "url")
             size == get_i64(json, "size")
             source == get_str(json, "source")
             raw_content == get_str(json, "raw_content")
             filename == get_str(json, "filename")
             creator == get_str(json, "creator")
             created_s == get_str(json, "created_at")
             discovered_s == get_str(json, "discovered_at")
             created_at == IF created_s.ok THEN parse_from_str(created_s.val) ELSE created_s
             discovered_at ==
                 IF discovered_s.ok THEN parse_from_str(discovered_s.val) ELSE discovered_s
         IN  IF /\ url.ok /\ size.ok /\ source.ok /\ raw_content.ok /\ filename.ok
                /\ creator.ok /\ created_at.ok /\ discovered_at.ok
             THEN [ok |-> TRUE,
                   val |-> [uid |-> json.uid, id |-> None, url |-> url.val,
                            size |-> as_usize(size.val), source |-> source.val,
                            raw_content |-> raw_content.val, filename |-> filename.val,
                            creator |-> creator.val, created_at |-> created_at.val,
                            discovered_at |-> discovered_at.val]]
             ELSE [ok |-> FALSE, val |-> Null]

Envelope(uid, content) ==
    [uid |-> uid, text |-> "json",
     url |-> JStr("https://pastebin.com/x"), size |-> JInt(14),
     source |-> JStr("pastebin"), raw_content |-> JStr(content),
     filename |-> JStr("x.yml"), creator |-> JStr("bad-user"),
     created_at |-> JStr("2021/03/04-05:06:07"),
     discovered_at |-> JStr("2021/03/04-05:06:07")]

\* the payloads the external producer pushes; the uid is the list position
PayloadKinds == Contents \cup {"QUIT", "no-url"}
Payload(uid, kind) ==
    CASE kind = "QUIT" -> [uid |-> uid, text |-> "QUIT"]
      [] kind = "no-url" -> [Envelope(uid, "foo") EXCEPT !.url = JNull]
      [] OTHER -> Envelope(uid, kind)

\* a processor-side Event built directly (Event::new), as the doc example does
Event_new(uid, raw_content) == from_json_str(Envelope(uid, raw_content)).val

\* ------------------------------------------------------------ rule files
rec_get_files_any_ext(dir, ext) == dir
\* rec_get_files_by_ext: the files under dir whose extension is ext
rec_get_files_by_ext(dir, ext) == {f \in dir : f.ext = ext}

\* the rule directories tried: one with a rule file, one without
RuleDirs == {{[path |-> "yara-rules/pass.yar", ext |-> "yar"],
              [path |-> "yara-rules/README.md", ext |-> "md"]},
             {[path |-> "yara-rules/README.md", ext |-> "md"]}}

\* ------------------------------------------------------------- channels
\* crossbeam_channel::unbounded(): a send never blocks and fails only when no
\* receiver is left; a receiver's iteration ends when the buffer is empty and
\* no sender is left.

\* the coordinator's statements, in program order
MainProgramDropTogether ==
    <<"start_processors", "start_loaders", "drop_feed", "drop_load",
      "join_processors", "join_loaders">>
\* main.rs:108-140
MainProgram ==
    <<"start_processors", "start_loaders", "drop_feed", "join_processors",
      "drop_load", "join_loaders">>
\* main() with the feeders started first (main.rs itself never starts them)
PipelineProgram == <<"start_feeders">> \o MainProgram
\* main.rs:77-83, the configuration load alone
ConfigProgram == <<"load_config">>
\* processing.rs:33-60
DocProgram == <<"start_processors", "send", "drop_feed", "drop_load", "join_processors">>
\* a creator thread as in processing.rs:33-60 that sends two events and closes
\* the receiving side of the load channel
ClosedProgram ==
    <<"start_processors", "send", "send", "drop_load_recvr", "drop_feed", "drop_load",
      "join_processors">>
\* feeder.rs:31-42
FeederDocProgram == <<"start_feeders", "join_feeders">>
\* a creator thread as in feeder.rs:31-42 that closes the receiving side of
\* the feed channel
FaultsProgram == <<"start_feeders", "drop_feed_recvr", "join_feeders">>

\* the coordinator has run off the end of its program: the process is gone
Exited == main_pc > Len(program)
Stmt == IF Exited THEN "exited" ELSE program[main_pc]
\* the coordinator has finished statement st
Passed(st) == \E i \in 1..Len(program) : program[i] = st /\ main_pc > i
\* the coordinator leaves its program at the current statement by panic! or
\* process::exit: that statement and the rest of the program are not run
Abort(how) ==
    /\ program' = SubSeq(program, 1, main_pc - 1) \o <<how>>
    /\ main_pc' = main_pc + 1
Panicked == Passed("panic")

\* a thread that has been spawned and has not returned holds its clones
FeederLive_never(f) == FALSE
FeederLive(f) == feeder[f].pc \notin {"idle", "done"}
ProcLive_after_return(p) == proc[p].pc # "idle"
ProcLive(p) == proc[p].pc \notin {"idle", "done"}
LoaderLive(l) == loader[l].pc \notin {"idle", "done"}

BoolToInt(b) == IF b THEN 1 ELSE 0

FeedSendersMainOnly == BoolToInt(feed_sendr)
\* live Sender<Event> handles: main's feed_sendr and each feeder's sendr_copy
FeedSenders == BoolToInt(feed_sendr) + Cardinality({f \in Feeders : FeederLive(f)})
\* live Receiver<Event> handles: main's feed_recvr and each processor's rx
FeedReceivers ==
    BoolToInt(~Exited /\ ~Passed("drop_feed_recvr")) + Cardinality({p \in Processors : ProcLive(p)})
\* live Sender<ProcessedEvent> handles: main's load_sendr and each processor's sx
LoadSenders == BoolToInt(load_sendr) + Cardinality({p \in Processors : ProcLive(p)})
LoadReceivers_loaders_only == Cardinality({l \in Loaders : LoaderLive(l)})
\* live Receiver<ProcessedEvent> handles: main's load_recvr and each loader's rx
LoadReceivers ==
    BoolToInt(~Exited /\ ~Passed("drop_load_recvr")) + Cardinality({l \in Loaders : LoaderLive(l)})

send_ok_while_main_holds(receivers) == receivers > 0 /\ load_sendr
\* Sender::send succeeds iff some receiver is alive
send_ok(receivers) == receivers > 0
recv_rest_peek(q) == q
\* what a receive leaves in the buffer
recv_rest(q) == Tail(q)
chan_push_front(q, msg) == <<msg>> \o q
\* the buffer after a successful send
chan_push(q, msg) == Append(q, msg)
disconnected_after_load_drop(q, senders) == q = <<>> /\ senders = 0 /\ ~load_sendr
disconnected_no_sender(q, senders) == senders = 0
disconnected_when_empty(q, senders) == q = <<>>
\* the receiver's iterator returns None
disconnected(q, senders) == q = <<>> /\ senders = 0

\* ------------------------------------------------------------ statistics
Stats_new_one == [overall_proc_time |-> 0, num_events |-> 1, num_matches |-> 0, num_failures |-> 0]
\* Stats::new
Stats_new == [overall_proc_time |-> 0, num_events |-> 0, num_matches |-> 0, num_failures |-> 0]
add_duration_twice(st, elapsed) == [st EXCEPT !.overall_proc_time = @ + elapsed + elapsed]
\* Stats::add_duration
add_duration(st, elapsed) == [st EXCEPT !.overall_proc_time = @ + elapsed]
inc_events_noop(st) == st
inc_events(st) == [st EXCEPT !.num_events = @ + 1]
inc_matches(st) == [st EXCEPT !.num_matches = @ + 1]
inc_failures_twice(st) == [st EXCEPT !.num_failures = @ + 2]
inc_failures(st) == [st EXCEPT !.num_failures = @ + 1]
\* the cumulative time handed out as the average
avg_proc_time_undivided(st) == st.overall_proc_time
\* Stats::avg_proc_time; Duration / u32 keeps whole nanoseconds
avg_proc_time(st) ==
    IF st.num_events = 0 THEN 0 ELSE st.overall_proc_time \div st.num_events
\* impl fmt::Display for Stats: the five numbers written
Display(st) ==
    [overall_proc_time |-> st.overall_proc_time, avg_proc_time |-> avg_proc_time(st),
     num_events |-> st.num_events, num_matches |-> st.num_matches,
     num_failures |-> st.num_failures]

\* start.elapsed() of one loop pass, in model time units
Elapsed == {3}

\* ProcessedEvent(message, m)
ProcessedEvent(message, m) == [event |-> message, matches |-> m]

should_send_with_fragments(r) == r.ok /\ \E i \in DOMAIN r.m : r.m[i].data # <<>>
should_send_unless_matched(r) == r.ok /\ r.m = <<>>
should_send_any_ok(r) == r.ok
\* the arms of `match p.process(..)` that reach sx.send: Ok(m) with !m.is_empty()
should_send(r) == r.ok /\ r.m # <<>>

\* ---------------------------------------------------------------- feeders
\* start_feeders: one loop pass = Feeder::connect, Sender::clone, thread::spawn
StartFeeders ==
    /\ Stmt = "start_feeders"
    /\ feeder' = IF num_feeders = 0 THEN feeder
                  ELSE [feeder EXCEPT ![loop_i + 1].pc = "connect"]
    /\ IF loop_i + 1 >= num_feeders
       THEN main_pc' = main_pc + 1 /\ loop_i' = 0
       ELSE main_pc' = main_pc /\ loop_i' = loop_i + 1
    /\ UNCHANGED <<envVars, chanVars, feed_sendr, load_sendr, program, proc, loader,
                   dbVars, histVars>>

\* Feeder::listen, client.get_connection()?
FeederConnect(f) ==
    /\ ~Exited
    /\ feeder[f].pc = "connect"
    /\ \E ok \in BOOLEAN :
         feeder' = [feeder EXCEPT ![f].pc = IF ok THEN "pop" ELSE "done",
                                  ![f].result = IF ok THEN "running" ELSE "Err",
                                  ![f].conn = IF ok THEN "up" ELSE "none"]
    /\ UNCHANGED <<envVars, chanVars, mainVars, proc, loader, dbVars, histVars>>

\* Feeder::pop_msg returned Ok: blpop took the head of the list
FeederPop(f) ==
    /\ ~Exited
    /\ feeder[f].pc = "pop"
    /\ feeder[f].conn = "up"
    /\ redis # <<>>
    /\ feeder' = [feeder EXCEPT ![f].pc = "handle", ![f].msg = Head(redis),
                                ![f].last = Head(redis),
                                ![f].quits = @ + BoolToInt(Head(redis).text = "QUIT"),
                                ![f].errs = IF @ = "none" THEN "none" ELSE "recovered"]
    /\ redis' = Tail(redis)
    /\ UNCHANGED <<yara_dir, yml, cpus, cfg, chanVars, mainVars, proc, loader, dbVars, histVars>>

\* the connection of a feeder to the external queue breaks: for the next pop
\* only ("failing") or for every pop from now on ("dead")
ConnFault(f) ==
    /\ ~Exited
    /\ feeder[f].conn = "up"
    /\ \E how \in {"failing", "dead"} : feeder' = [feeder EXCEPT ![f].conn = how]
    /\ UNCHANGED <<envVars, chanVars, mainVars, proc, loader, dbVars, histVars>>

\* the Err arm taken for a return of the error
pop_err_arm_return(fr) == [fr EXCEPT !.pc = "done", !.errs = "failed", !.result = "Err"]
\* the Err arm of `match self.pop_msg(&mut conn)`: error!(..) and `continue`
pop_err_arm(fr) == [fr EXCEPT !.pc = "pop", !.errs = "failed"]

\* Feeder::pop_msg returned Err
FeederPopErr(f) ==
    /\ ~Exited
    /\ feeder[f].pc = "pop"
    /\ feeder[f].conn \in {"failing", "dead"}
    /\ feeder' = [feeder EXCEPT ![f] =
                     pop_err_arm([@ EXCEPT !.conn = IF @ = "failing" THEN "up" ELSE "dead"])]
    /\ UNCHANGED <<envVars, chanVars, mainVars, proc, loader, dbVars, histVars>>

\* the loop body taken for the end of the loop
next_iteration_return(fr) == [fr EXCEPT !.pc = "done", !.msg = NoMsg, !.result = "Ok"]
\* the end of the loop body of Feeder::listen: the next pass pops again
next_iteration(fr) == [fr EXCEPT !.pc = "pop", !.msg = NoMsg]

is_quit_never(payload) == FALSE
\* Feeder::listen: `&payload == "QUIT"`
is_quit(payload) == payload.text = "QUIT"

\* Feeder::listen from `let payload = msg.payload` to the end of the loop body
FeederHandle(f) ==
    /\ ~Exited
    /\ feeder[f].pc = "handle"
    /\ LET payload == feeder[f].msg
           e == from_json_str(payload)
       IN  IF is_quit(payload)
           THEN /\ feeder' = [feeder EXCEPT ![f].pc = "done", ![f].msg = NoMsg,
                                            ![f].result = "Ok"]
                /\ UNCHANGED <<feedq, f_sent>>
           ELSE /\ feeder' = [feeder EXCEPT ![f] = next_iteration(
                                [@ EXCEPT !.send_failed = @ \/ (e.ok /\ ~send_ok(FeedReceivers))])]
                /\ IF e.ok /\ send_ok(FeedReceivers)
                   THEN feedq' = chan_push(feedq, e.val) /\ f_sent' = Append(f_sent, e.val.uid)
                   ELSE UNCHANGED <<feedq, f_sent>>
    /\ UNCHANGED <<envVars, loadq, mainVars, proc, loader, dbVars, p_recvd, p_sent, l_taken>>

\* ------------------------------------------------------------- processors
\* start_processors: one loop pass = process_forever up to thread::spawn
StartProcessors ==
    /\ Stmt = "start_processors"
    /\ proc' = IF num_processors = 0 THEN proc
                ELSE [proc EXCEPT ![loop_i + 1].pc = "from_dir"]
    /\ IF loop_i + 1 >= num_processors
       THEN main_pc' = main_pc + 1 /\ loop_i' = 0
       ELSE main_pc' = main_pc /\ loop_i' = loop_i + 1
    /\ UNCHANGED <<envVars, chanVars, feed_sendr, load_sendr, program, feeder, loader,
                   dbVars, histVars>>

\* Processor::from_dir / with_rule_files; `?` returns the error from the thread
ProcFromDir(p) ==
    /\ ~Exited
    /\ proc[p].pc = "from_dir"
    /\ LET rule_files == rec_get_files_by_ext(yara_dir, "yar")
       IN  IF rule_files = {}
           THEN proc' = [proc EXCEPT ![p].pc = "done", ![p].result = "NoYaraRulesError"]
           ELSE \E compiled \in BOOLEAN :
                  proc' = [proc EXCEPT ![p].pc = IF compiled THEN "recv" ELSE "done",
                                       ![p].result = IF compiled THEN "running" ELSE "YaraError"]
    /\ UNCHANGED <<envVars, chanVars, mainVars, feeder, loader, dbVars, histVars>>

\* `for message in rx` yields a message; start is taken and stats.inc_events()
ProcRecv(p) ==
    /\ ~Exited
    /\ proc[p].pc = "recv"
    /\ feedq # <<>>
    /\ proc' = [proc EXCEPT ![p].pc = "process", ![p].message = Head(feedq),
                            ![p].stats = inc_events(@)]
    /\ feedq' = recv_rest(feedq)
    /\ p_recvd' = [p_recvd EXCEPT ![p] = Append(@, Head(feedq).uid)]
    /\ UNCHANGED <<envVars, loadq, mainVars, feeder, loader, dbVars, p_sent, l_taken, f_sent>>

\* the rest of the loop body: p.process, inc_matches, sx.send, add_duration
ProcProcess(p) ==
    /\ ~Exited
    /\ proc[p].pc = "process"
    /\ \E elapsed \in Elapsed :
        LET message == proc[p].message
            r == process(message.raw_content)
            matched == should_send(r)
            sent == send_ok(LoadReceivers)
            s1 == IF matched THEN inc_matches(proc[p].stats) ELSE proc[p].stats
            s2 == IF matched /\ ~sent THEN inc_failures(s1) ELSE s1
        IN  /\ proc' = [proc EXCEPT ![p].pc = "recv", ![p].message = NoMsg,
                                    ![p].stats = add_duration(s2, elapsed),
                                    ![p].whoops = @ + BoolToInt(~r.ok)]
            /\ IF matched
               THEN /\ p_sent' = [p_sent EXCEPT ![p] =
                          Append(@, [uid |-> message.uid, ok |-> sent, held |-> load_sendr,
                                      raw_content |-> message.raw_content,
                                      matches |-> Len(r.m)])]
                    /\ loadq' = IF sent THEN chan_push(loadq, ProcessedEvent(message, r.m))
                                ELSE loadq
               ELSE UNCHANGED <<loadq, p_sent>>
    /\ UNCHANGED <<envVars, feedq, mainVars, feeder, loader, dbVars, p_recvd, l_taken, f_sent>>

\* `for message in rx` ends; the thread returns Ok(stats)
ProcReturn(p) ==
    /\ ~Exited
    /\ proc[p].pc = "recv"
    /\ disconnected(feedq, FeedSenders)
    /\ proc' = [proc EXCEPT ![p].pc = "done", ![p].result = "Stats"]
    /\ UNCHANGED <<envVars, chanVars, mainVars, feeder, loader, dbVars, histVars>>

\* the closure of process_forever panics (in the matching library, or on an
\* overflow of a counter): the thread unwinds, dropping rx, sx and the message
\* it holds, and its handle's join() will return Err
ProcPanic(p) ==
    /\ ~Exited
    /\ proc[p].pc \in {"from_dir", "recv", "process"}
    /\ proc' = [proc EXCEPT ![p].pc = "done", ![p].result = "panicked", ![p].message = NoMsg]
    /\ UNCHANGED <<envVars, chanVars, mainVars, feeder, loader, dbVars, histVars>>

\* ---------------------------------------------------------------- loaders
RuleMatch_new_unset_parent(event_id, rule_matched, tags_matched) ==
    [id |-> None, event_id |-> 0, rule_matched |-> rule_matched,
     tags_matched |-> tags_matched]
RuleMatch_new(event_id, rule_matched, tags_matched) ==
    [id |-> None, event_id |-> event_id, rule_matched |-> rule_matched,
     tags_matched |-> tags_matched]
AsciiMatch_new(rule_match_id, matched_string) ==
    [id |-> None, match_id |-> rule_match_id, matched_string |-> matched_string]

\* a loader between two items: no client, no transaction
LoaderIdle ==
    [pc |-> "recv", proc_event |-> NoMsg, client |-> FALSE, trans |-> FALSE,
     pending |-> <<>>, event_id |-> None, match_id |-> None, mi |-> 0, di |-> 0]

persist_return_keep_client(ld) == [LoaderIdle EXCEPT !.client = ld.client]
\* `return` from persist_processed_event: trans and client go out of scope, so
\* an uncommitted transaction rolls back and the connection goes back to the pool
persist_return(ld) == LoaderIdle

\* a statement run on `trans`: the row is pending.  txn is not data of the
\* program: it names the transaction (loader and event) that wrote the row.
Entry(l, table, row) ==
    [table |-> table,
     row |-> [row |-> row, txn |-> [loader |-> l, uid |-> loader[l].proc_event.event.uid]]]

\* rows of a pending transaction that go to `table`
RowsOf(pending, table) ==
    {pending[i].row : i \in {j \in 1..Len(pending) : pending[j].table = table}}

\* Transaction::commit: the pending rows become visible
commit(store, pending) ==
    [events |-> store.events \cup RowsOf(pending, "events"),
     rule_matches |-> store.rule_matches \cup RowsOf(pending, "rule_matches"),
     ascii_matches |-> store.ascii_matches \cup RowsOf(pending, "ascii_matches")]

insert_autocommit(store, entry) == commit(store, <<entry>>)
\* the committed store after an insert that ran on an open transaction
insert_visible(store, entry) == store

refuses_zero_never(n) == FALSE
\* start_loaders: `if num_loaders == 0 { .. panic!(..) }`
refuses_zero(n) == n = 0

\* start_loaders: the zero check, then one loop pass = Receiver::clone,
\* Arc::clone, thread::spawn
StartLoaders ==
    /\ Stmt = "start_loaders"
    /\ IF refuses_zero(num_loaders)
       THEN /\ Abort("panic")
            /\ UNCHANGED <<loader, loop_i>>
       ELSE /\ loader' = IF num_loaders = 0 THEN loader
                         ELSE [loader EXCEPT ![loop_i + 1].pc = "recv"]
            /\ IF loop_i + 1 >= num_loaders
               THEN main_pc' = main_pc + 1 /\ loop_i' = 0
               ELSE main_pc' = main_pc /\ loop_i' = loop_i + 1
            /\ UNCHANGED program
    /\ UNCHANGED <<envVars, chanVars, feed_sendr, load_sendr, feeder, proc,
                   dbVars, histVars>>

\* `for proc_event in rx` yields an item
LoaderRecv(l) ==
    /\ ~Exited
    /\ loader[l].pc = "recv"
    /\ loadq # <<>>
    /\ loader' = [loader EXCEPT ![l].pc = "get_conn", ![l].proc_event = Head(loadq)]
    /\ loadq' = recv_rest(loadq)
    /\ l_taken' = [l_taken EXCEPT ![l] =
                      Append(@, [uid |-> Head(loadq).event.uid, outcome |-> "persisting",
                                 proc_event |-> Head(loadq)])]
    /\ UNCHANGED <<envVars, feedq, mainVars, feeder, proc, dbVars, p_recvd, p_sent, f_sent>>

\* `for proc_event in rx` ends; the thread returns
LoaderReturn(l) ==
    /\ ~Exited
    /\ loader[l].pc = "recv"
    /\ disconnected(loadq, LoadSenders)
    /\ loader' = [loader EXCEPT ![l].pc = "done"]
    /\ UNCHANGED <<envVars, chanVars, mainVars, feeder, proc, dbVars, histVars>>

\* persist_processed_event goes on with the loader's locals as in ld
Continue(l, ld) ==
    /\ loader' = [loader EXCEPT ![l] = ld]
    /\ UNCHANGED l_taken

\* persist_processed_event returns
Return(l, outcome) ==
    /\ loader' = [loader EXCEPT ![l] = persist_return(@)]
    /\ l_taken' = [l_taken EXCEPT ![l][Len(l_taken[l])].outcome = outcome]

\* persist_processed_event: self.conn.get()
LoaderGetConn(l) ==
    /\ ~Exited
    /\ loader[l].pc = "get_conn"
    /\ \/ Continue(l, [loader[l] EXCEPT !.pc = "transaction", !.client = TRUE])
       \/ Return(l, "failed")
    /\ UNCHANGED <<envVars, chanVars, mainVars, feeder, proc, dbVars, p_recvd, p_sent, f_sent>>

\* persist_processed_event: client.transaction()
LoaderTransaction(l) ==
    /\ ~Exited
    /\ loader[l].pc = "transaction"
    /\ \/ Continue(l, [loader[l] EXCEPT !.pc = "insert_event", !.trans = TRUE])
       \/ Return(l, "failed")
    /\ UNCHANGED <<envVars, chanVars, mainVars, feeder, proc, dbVars, p_recvd, p_sent, f_sent>>

AfterFragment_rules_first(ld, mi, di) ==
    LET matches == ld.proc_event.matches
    IN  IF di = 0 /\ mi < Len(matches)
        THEN [ld EXCEPT !.pc = "insert_rule", !.mi = mi + 1, !.di = 0]
        ELSE IF di < Len(matches[mi].data)
             THEN [ld EXCEPT !.pc = "insert_ascii", !.mi = mi, !.di = di + 1]
             ELSE [ld EXCEPT !.pc = "commit"]
\* where persist_processed_event goes after fragment di of flat_match mi
\* (di = 0: after the rule_matches insert): the next fragment, the next
\* flat_match, or the commit
AfterFragment(ld, mi, di) ==
    LET matches == ld.proc_event.matches
    IN  IF di < Len(matches[mi].data)
        THEN [ld EXCEPT !.pc = "insert_ascii", !.mi = mi, !.di = di + 1]
        ELSE IF mi < Len(matches)
             THEN [ld EXCEPT !.pc = "insert_rule", !.mi = mi + 1, !.di = 0]
             ELSE [ld EXCEPT !.pc = "commit"]

\* event.insert(&mut trans) and the check of event.id()
LoaderInsertEvent(l) ==
    /\ ~Exited
    /\ loader[l].pc = "insert_event"
    /\ \/ LET id == seqs.events + 1
              event == [loader[l].proc_event.event EXCEPT !.id = Some(id)]
              entry == Entry(l, "events", event)
              ld == [loader[l] EXCEPT !.pending = Append(@, entry), !.event_id = event.id]
          IN  /\ seqs' = [seqs EXCEPT !.events = id]
              /\ db' = insert_visible(db, entry)
              /\ IF ~event.id.some THEN Return(l, "failed")
                 ELSE IF ld.proc_event.matches = <<>> THEN Continue(l, [ld EXCEPT !.pc = "commit"])
                 ELSE Continue(l, [ld EXCEPT !.pc = "insert_rule", !.mi = 1, !.di = 0])
       \/ Return(l, "failed") /\ UNCHANGED dbVars
    /\ UNCHANGED <<envVars, chanVars, mainVars, feeder, proc, p_recvd, p_sent, f_sent>>

\* RuleMatch::new, rule_match.insert(&mut trans) and the check of rule_match.id()
LoaderInsertRule(l) ==
    /\ ~Exited
    /\ loader[l].pc = "insert_rule"
    /\ \/ LET flat_match == loader[l].proc_event.matches[loader[l].mi]
              id == seqs.rule_matches + 1
              rule_match ==
                  [RuleMatch_new(loader[l].event_id.v, flat_match.rule_name, flat_match.tags)
                     EXCEPT !.id = Some(id)]
              entry == Entry(l, "rule_matches", rule_match)
              ld == [loader[l] EXCEPT !.pending = Append(@, entry), !.match_id = rule_match.id]
          IN  /\ seqs' = [seqs EXCEPT !.rule_matches = id]
              /\ db' = insert_visible(db, entry)
              /\ IF ~rule_match.id.some THEN Return(l, "failed")
                 ELSE Continue(l, AfterFragment(ld, ld.mi, 0))
       \/ Return(l, "failed") /\ UNCHANGED dbVars
    /\ UNCHANGED <<envVars, chanVars, mainVars, feeder, proc, p_recvd, p_sent, f_sent>>

\* AsciiMatch::new and ascii_match.insert(&mut trans)
LoaderInsertAscii(l) ==
    /\ ~Exited
    /\ loader[l].pc = "insert_ascii"
    /\ \/ LET data == loader[l].proc_event.matches[loader[l].mi].data[loader[l].di]
              id == seqs.ascii_matches + 1
              ascii_match == [AsciiMatch_new(loader[l].match_id.v, data) EXCEPT !.id = Some(id)]
              entry == Entry(l, "ascii_matches", ascii_match)
              ld == [loader[l] EXCEPT !.pending = Append(@, entry)]
          IN  /\ seqs' = [seqs EXCEPT !.ascii_matches = id]
              /\ db' = insert_visible(db, entry)
              /\ Continue(l, AfterFragment(ld, ld.mi, ld.di))
       \/ Return(l, "failed") /\ UNCHANGED dbVars
    /\ UNCHANGED <<envVars, chanVars, mainVars, feeder, proc, p_recvd, p_sent, f_sent>>

\* trans.commit(), then the function returns
LoaderCommit(l) ==
    /\ ~Exited
    /\ loader[l].pc = "commit"
    /\ \/ db' = commit(db, loader[l].pending) /\ Return(l, "committed")
       \/ db' = db /\ Return(l, "failed")
    /\ UNCHANGED <<envVars, chanVars, mainVars, feeder, proc, seqs, p_recvd, p_sent, f_sent>>

\* ------------------------------------------------------------ coordinator
\* Config::from_file(cli.config_path()); on Err main calls process::exit(1)
LoadConfig ==
    /\ Stmt = "load_config"
    /\ LET c == Config_from_file(yml, cpus)
       IN  /\ cfg' = c
           /\ IF c.ok THEN main_pc' = main_pc + 1 /\ program' = program
              ELSE Abort("exit")
    /\ UNCHANGED <<redis, yara_dir, yml, cpus, chanVars, feed_sendr, load_sendr,
                   loop_i, feeder, proc, loader, dbVars, histVars>>

\* drop(feed_sendr)
DropFeedSendr ==
    /\ Stmt = "drop_feed"
    /\ feed_sendr' = FALSE
    /\ main_pc' = main_pc + 1
    /\ UNCHANGED <<envVars, chanVars, load_sendr, program, loop_i, feeder, proc, loader,
                   dbVars, histVars>>

\* main's join loop prints the Stats it is handed (main.rs:128); the join of
\* the doc example (processing.rs:52-54) prints nothing
PrintsStats == Passed("start_loaders")

on_join_err_unwrap == "panic"
\* `if let Ok(res) = handle.join() { .. }` has no else: the handle of a thread
\* that panicked is passed over
on_join_err == "skip"

\* one pass of `for handle in p_handles`: handle.join() returns
JoinProcessor ==
    /\ Stmt = "join_processors"
    /\ num_processors > 0 => proc[loop_i + 1].pc = "done"
    /\ IF num_processors > 0 /\ proc[loop_i + 1].result = "panicked" /\ on_join_err = "panic"
       THEN /\ Abort("panic")
            /\ UNCHANGED <<proc, loop_i>>
       ELSE /\ proc' = IF num_processors > 0 /\ PrintsStats /\ proc[loop_i + 1].result = "Stats"
                       THEN [proc EXCEPT ![loop_i + 1].printed =
                                             Some(Display(proc[loop_i + 1].stats))]
                       ELSE proc
            /\ IF loop_i + 1 >= num_processors
               THEN main_pc' = main_pc + 1 /\ loop_i' = 0
               ELSE main_pc' = main_pc /\ loop_i' = loop_i + 1
            /\ UNCHANGED program
    /\ UNCHANGED <<envVars, chanVars, feed_sendr, load_sendr, feeder, loader,
                   dbVars, histVars>>

\* drop(load_sendr)
DropLoadSendr ==
    /\ Stmt = "drop_load"
    /\ load_sendr' = FALSE
    /\ main_pc' = main_pc + 1
    /\ UNCHANGED <<envVars, chanVars, feed_sendr, program, loop_i, feeder, proc, loader,
                   dbVars, histVars>>

\* one pass of `for handle in l_handles`: handle.join() returns
JoinLoader ==
    /\ Stmt = "join_loaders"
    /\ num_loaders > 0 => loader[loop_i + 1].pc = "done"
    /\ IF loop_i + 1 >= num_loaders
       THEN main_pc' = main_pc + 1 /\ loop_i' = 0
       ELSE main_pc' = main_pc /\ loop_i' = loop_i + 1
    /\ UNCHANGED <<envVars, chanVars, feed_sendr, load_sendr, program, feeder, proc, loader,
                   dbVars, histVars>>

\* one pass of `for handle in handles` of the start_feeders doc example
JoinFeeder ==
    /\ Stmt = "join_feeders"
    /\ num_feeders > 0 => feeder[loop_i + 1].pc = "done"
    /\ IF loop_i + 1 >= num_feeders
       THEN main_pc' = main_pc + 1 /\ loop_i' = 0
       ELSE main_pc' = main_pc /\ loop_i' = loop_i + 1
    /\ UNCHANGED <<envVars, chanVars, feed_sendr, load_sendr, program, feeder, proc, loader,
                   dbVars, histVars>>

\* drop(proc_receiver) by a creator thread that does not read the feed channel
DropFeedRecvr ==
    /\ Stmt = "drop_feed_recvr"
    /\ main_pc' = main_pc + 1
    /\ UNCHANGED <<envVars, chanVars, feed_sendr, load_sendr, program, loop_i, feeder, proc,
                   loader, dbVars, histVars>>

\* drop(load_recvr) by a creator thread that does not read the load channel
DropLoadRecvr ==
    /\ Stmt = "drop_load_recvr"
    /\ main_pc' = main_pc + 1
    /\ UNCHANGED <<envVars, chanVars, feed_sendr, load_sendr, program, loop_i, feeder, proc,
                   loader, dbVars, histVars>>

\* feed_sendr.send(e) of the start_processors doc example
DocSend ==
    /\ Stmt = "send"
    /\ \E c \in Contents :
         LET e == Event_new(Len(f_sent) + 1, c)
         IN  IF send_ok(FeedReceivers)
             THEN feedq' = chan_push(feedq, e) /\ f_sent' = Append(f_sent, e.uid)
             ELSE UNCHANGED <<feedq, f_sent>>
    /\ main_pc' = main_pc + 1
    /\ UNCHANGED <<envVars, loadq, feed_sendr, load_sendr, program, loop_i, feeder, proc,
                   loader, dbVars, p_recvd, p_sent, l_taken>>

\* ------------------------------------------------------- specifications
\* what the external producer may have pushed: at most MaxPayloads payloads
\* other than QUIT, and at most one QUIT per feeder
Count(kinds, K) == Cardinality({i \in DOMAIN kinds : kinds[i] \in K})
ScriptsFor(nf, Kinds) ==
    {kinds \in UNION {[1..n -> Kinds] : n \in 0..(MaxPayloads + nf)} :
        /\ Count(kinds, {"QUIT"}) <= nf
        /\ Count(kinds, Kinds \ {"QUIT"}) <= MaxPayloads}
Scripts == ScriptsFor(NumFeeders, PayloadKinds)

\* the threads not yet spawned, nf feeders, np processors and nl loaders
InitThreads(nf, np, nl) ==
    /\ feeder = [f \in 1..nf |->
                   [pc |-> "idle", msg |-> NoMsg, result |-> "running", quits |-> 0,
                    last |-> NoMsg, conn |-> "none", errs |-> "none", send_failed |-> FALSE]]
    /\ proc = [p \in 1..np |->
                 [pc |-> "idle", message |-> NoMsg, stats |-> Stats_new, result |-> "running",
                  printed |-> None, whoops |-> 0]]
    /\ loader = [l \in 1..nl |-> [LoaderIdle EXCEPT !.pc = "idle"]]

\* the state at main.rs:107, the two channels just created
InitPipeline(nf, np, nl) ==
    /\ feedq = <<>> /\ loadq = <<>>
    /\ feed_sendr = TRUE /\ load_sendr = TRUE
    /\ main_pc = 1 /\ loop_i = 0
    /\ InitThreads(nf, np, nl)
    /\ db = [events |-> {}, rule_matches |-> {}, ascii_matches |-> {}]
    /\ seqs = [events |-> 0, rule_matches |-> 0, ascii_matches |-> 0]
    /\ p_recvd = [p \in 1..np |-> <<>>]
    /\ p_sent = [p \in 1..np |-> <<>>]
    /\ l_taken = [l \in 1..nl |-> <<>>]
    /\ f_sent = <<>>

InitCommon(nf, np, nl) ==
    /\ yara_dir \in RuleDirs
    /\ InitPipeline(nf, np, nl)

\* the pipeline specifications start at main.rs:105, after the configuration
\* load, and keep no configuration
NoConfig == yml = YamlFile(TRUE, "document", YBad) /\ cpus = 1 /\ cfg = None

Init ==
    /\ \E kinds \in Scripts : redis = [i \in DOMAIN kinds |-> Payload(i, kinds[i])]
    /\ program = PipelineProgram
    /\ NoConfig
    /\ InitCommon(NumFeeders, NumProcessors, NumLoaders)

FeederNext ==
    \E f \in Feeders : FeederConnect(f) \/ FeederPop(f) \/ FeederHandle(f)
ProcNext ==
    \E p \in Processors : ProcFromDir(p) \/ ProcRecv(p) \/ ProcProcess(p) \/ ProcReturn(p)
LoaderNext ==
    \E l \in Loaders :
        \/ LoaderRecv(l) \/ LoaderReturn(l) \/ LoaderGetConn(l) \/ LoaderTransaction(l)
        \/ LoaderInsertEvent(l) \/ LoaderInsertRule(l) \/ LoaderInsertAscii(l)
        \/ LoaderCommit(l)
MainNextSteps ==
    \/ StartProcessors \/ StartLoaders \/ DropFeedSendr \/ JoinProcessor
    \/ DropLoadSendr \/ JoinLoader

Next == StartFeeders \/ MainNextSteps \/ FeederNext \/ ProcNext \/ LoaderNext

Spec == Init /\ [][Next]_vars

\* main() as written: no feeder is ever started, so nothing receives from redis
\* and nothing sends on the feed channel
InitMain ==
    /\ redis = <<>>
    /\ program = MainProgram
    /\ NoConfig
    /\ InitCommon(NumFeeders, NumProcessors, NumLoaders)

MainProcNext == \E p \in Processors : ProcFromDir(p) \/ ProcReturn(p)
MainLoaderNext == \E l \in Loaders : LoaderReturn(l)
MainNext == MainNextSteps \/ MainProcNext \/ MainLoaderNext

SpecMain == InitMain /\ [][MainNext]_vars

\* the creator thread of the start_processors doc example
InitDoc ==
    /\ redis = <<>>
    /\ program = DocProgram
    /\ NoConfig
    /\ InitCommon(NumFeeders, NumProcessors, NumLoaders)

DocNext == StartProcessors \/ DocSend \/ DropFeedSendr \/ DropLoadSendr \/ JoinProcessor \/ ProcNext

SpecDoc == InitDoc /\ [][DocNext]_vars

\* start_processors called by a thread that closes the load channel's receiver
InitClosed ==
    /\ redis = <<>>
    /\ program = ClosedProgram
    /\ NoConfig
    /\ InitCommon(0, NumProcessors, 0)

ClosedNext ==
    \/ StartProcessors \/ DocSend \/ DropLoadRecvr \/ DropFeedSendr \/ DropLoadSendr
    \/ JoinProcessor \/ ProcNext

SpecClosed == InitClosed /\ [][ClosedNext]_vars

\* the creator thread of the start_feeders doc example: two feeders, the feed
\* channel's receiver held and never read
NumDocFeeders == 2
FeederKinds == {"QUIT", "foo", "no-url"}

InitFeeders ==
    /\ \E kinds \in ScriptsFor(NumDocFeeders, FeederKinds) :
          redis = [i \in DOMAIN kinds |-> Payload(i, kinds[i])]
    /\ program = FeederDocProgram
    /\ NoConfig
    /\ InitCommon(NumDocFeeders, 0, 0)

FeedersNext == StartFeeders \/ JoinFeeder \/ FeederNext

SpecFeeders == InitFeeders /\ [][FeedersNext]_vars

\* the start_feeders doc example with connections that break and a creator
\* thread that drops the feed channel's receiver before it joins the feeders
InitFaults ==
    /\ \E kinds \in ScriptsFor(NumDocFeeders, FeederKinds) :
          redis = [i \in DOMAIN kinds |-> Payload(i, kinds[i])]
    /\ program = FaultsProgram
    /\ NoConfig
    /\ InitCommon(NumDocFeeders, 0, 0)

FeederFaultNext == \E f \in Feeders : ConnFault(f) \/ FeederPopErr(f)
FaultsNext == FeedersNext \/ DropFeedRecvr \/ FeederFaultNext

SpecFaults == InitFaults /\ [][FaultsNext]_vars

\* the same with fair scheduling: a step that stays possible is eventually taken
SpecFaultsFair == SpecFaults /\ WF_vars(FaultsNext)

\* one feeder of the start_feeders doc example and one envelope on the list
StringFields == {"url", "source", "raw_content", "filename", "creator"}
TimeFields == {"created_at", "discovered_at"}
StringValues == {JStr("x"), JStr(""), JNull}
SizeValues == {JInt(-1), JInt(0), JInt(14), JNull}
TimeValues == {JStr("2021/03/04-05:06:07"), JStr("yesterday"), JNull}
Envelopes ==
    {[uid |-> 1, text |-> "json", url |-> u, size |-> sz, source |-> so, raw_content |-> rc,
      filename |-> fn, creator |-> cr, created_at |-> ca, discovered_at |-> da] :
        u \in StringValues, sz \in SizeValues, so \in StringValues, rc \in StringValues,
        fn \in StringValues, cr \in StringValues, ca \in TimeValues, da \in TimeValues}

InitDecode ==
    /\ \E e \in Envelopes : redis = <<e>>
    /\ program = FeederDocProgram
    /\ NoConfig
    /\ InitCommon(1, 0, 0)

SpecDecode == InitDecode /\ [][FeedersNext]_vars

\* main() as written, started when the external queue holds one valid matching
\* event followed by QUIT and one feeder is configured
ScenarioPayloads == <<Payload(1, "pw: helloworld"), Payload(2, "QUIT")>>

InitScenario ==
    /\ redis = ScenarioPayloads
    /\ program = MainProgram
    /\ NoConfig
    /\ InitCommon(1, NumProcessors, NumLoaders)

SpecScenario == InitScenario /\ [][MainNext]_vars

\* the pipeline with one thread of each kind, started when the external queue
\* holds the event "probe" followed by QUIT, for every answer of the engine
ProbePayloads == <<Payload(1, "probe"), Payload(2, "QUIT")>>

InitProbe ==
    /\ redis = ProbePayloads
    /\ program = PipelineProgram
    /\ NoConfig
    /\ yara_dir \in ProbeDirs
    /\ InitPipeline(1, 1, 1)

SpecProbe == InitProbe /\ [][Next]_vars

\* the unit tests of Stats (processing.rs:392-418): a fresh Stats is given
\* durations and events in any order and is then asked for its average
MaxDuration == 12
MaxEvents == 5
Durations == 1..3
StatsProgram == <<"stats_test">>

InitStats ==
    /\ redis = <<>>
    /\ program = StatsProgram
    /\ NoConfig
    /\ InitCommon(0, 1, 0)

\* s.add_duration(d)
StatsAddDuration ==
    /\ Stmt = "stats_test"
    /\ \E d \in Durations :
          /\ proc[1].stats.overall_proc_time + d <= MaxDuration
          /\ proc' = [proc EXCEPT ![1].stats = add_duration(@, d)]
    /\ UNCHANGED <<envVars, chanVars, mainVars, feeder, loader, dbVars, histVars>>

\* s.inc_events()
StatsIncEvents ==
    /\ Stmt = "stats_test"
    /\ proc[1].stats.num_events < MaxEvents
    /\ proc' = [proc EXCEPT ![1].stats = inc_events(@)]
    /\ UNCHANGED <<envVars, chanVars, mainVars, feeder, loader, dbVars, histVars>>

\* s.avg_proc_time(), the last statement of a test
StatsAvg ==
    /\ Stmt = "stats_test"
    /\ proc' = [proc EXCEPT ![1].printed = Some(Display(proc[1].stats))]
    /\ main_pc' = main_pc + 1
    /\ UNCHANGED <<envVars, chanVars, feed_sendr, load_sendr, program, loop_i, feeder,
                   loader, dbVars, histVars>>

StatsNext == StatsAddDuration \/ StatsIncEvents \/ StatsAvg

SpecStats == InitStats /\ [][StatsNext]_vars

\* main with fair scheduling of the coordinator and the threads: a step that
\* stays possible is eventually taken
SpecMainFair == SpecMain /\ WF_vars(MainNext)

\* the pipeline with one loader and a producer that pushes matching and
\* non-matching events
DrainKinds == {"pw: helloworld", "foo", "QUIT"}

InitDrain ==
    /\ \E kinds \in ScriptsFor(NumFeeders, DrainKinds) :
          redis = [i \in DOMAIN kinds |-> Payload(i, kinds[i])]
    /\ program = PipelineProgram
    /\ NoConfig
    /\ InitCommon(NumFeeders, NumProcessors, 1)

SpecDrain == InitDrain /\ [][Next]_vars

\* SpecDrain with fair scheduling of the processor threads only: a processor
\* that can take a step eventually takes one; the coordinator, the feeders
\* and the loader may run or not
SpecDrainFair == SpecDrain /\ WF_vars(ProcNext)

\* SpecDrain with processor threads that may panic at any point.  Every step
\* of the program that stays possible is eventually taken; a panic may or may
\* not happen.
PanicNext == Next \/ (\E p \in Processors : ProcPanic(p))

SpecPanic == InitDrain /\ [][PanicNext]_vars
SpecPanicFair == SpecPanic /\ WF_vars(Next)

\* the three start functions called with counts from 0 to MaxPool; nothing is
\* on the external queue
MaxPool == 2

InitPools ==
    /\ redis = <<>>
    /\ program = PipelineProgram
    /\ NoConfig
    /\ \E nf \in 0..MaxPool, np \in 0..MaxPool, nl \in 0..MaxPool : InitCommon(nf, np, nl)

PoolsNext ==
    \/ StartFeeders \/ MainNextSteps \/ (\E f \in Feeders : FeederConnect(f))
    \/ MainProcNext \/ MainLoaderNext

SpecPools == InitPools /\ [][PoolsNext]_vars

\* main up to the configuration load, for every `workers` value of a bounded
\* set and every CPU count the scaled i32 can halve
MaxCpus == 2 * I32Max + 1
WorkerStrings == {"auto", "something_else", "Auto", ""}
YamlFields == {YInt(n) : n \in YamlInts} \cup {YBad}
WorkerBlocks ==
    {YHash(a, b, c) : a \in YamlFields, b \in YamlFields, c \in YamlFields}

InitConfig ==
    /\ \/ yml \in {YamlFile(TRUE, "document", b) : b \in WorkerBlocks} /\ cpus = 1
       \/ /\ yml \in {YamlFile(TRUE, "document", b) :
                         b \in {YStr(w) : w \in WorkerStrings} \cup {YBad}}
          /\ cpus \in 1..MaxCpus
       \/ /\ yml \in {YamlFile(r, t, YBad) : r \in BOOLEAN, t \in YamlTexts}
          /\ cpus = 1
    /\ cfg = None
    /\ redis = <<>>
    /\ program = ConfigProgram
    /\ InitCommon(0, 0, 0)

ConfigNext == LoadConfig

SpecConfig == InitConfig /\ [][ConfigNext]_vars

\* ================================================================ claims
Range(seq) == {seq[i] : i \in DOMAIN seq}
Uids(seq) == [i \in DOMAIN seq |-> seq[i].uid]
AllUids == 1..(MaxPayloads + NumFeeders)

RECURSIVE IsSubseq(_, _)
\* a is b with some elements left out
IsSubseq(a, b) ==
    IF a = <<>> THEN TRUE
    ELSE IF b = <<>> THEN FALSE
    ELSE IF Head(a) = Head(b) THEN IsSubseq(Tail(a), Tail(b))
    ELSE IsSubseq(a, Tail(b))

\* the sends of processor p that succeeded, in order
SentOk(p) == SelectSeq(p_sent[p], LAMBDA e : e.ok)
SentOkUids == UNION {Range(Uids(SentOk(p))) : p \in Processors}
RecvdUids == UNION {Range(p_recvd[p]) : p \in Processors}
TakenUids == UNION {Range(Uids(l_taken[l])) : l \in Loaders}

\* C1: the coordinator drops its load-queue sender only after join has
\* returned for every processor handle: whenever its sender is gone, the join
\* loop over p_handles is finished and no processor thread is running.
C1_LoadSendrHeldUntilProcessorsJoined ==
    ~load_sendr => /\ Passed("join_processors")
                   /\ \A p \in Processors : proc[p].pc = "done"

\* C1 witness: the sender has been dropped after a processor that handled
\* events returned its Stats
C1_Witness ==
    /\ ~load_sendr
    /\ \E p \in Processors : proc[p].result = "Stats" /\ proc[p].stats.num_events > 0

C3_FeedSendrDroppedAfterFeedersExit ==
    ~feed_sendr => \A f \in Feeders : feeder[f].pc = "done"

\* C4: a processor returns its Stats only once the feed-queue is closed and
\* empty: every event that was put on the feed-queue has been received by
\* some processor.
C4_ProcessorDrainsFeedQueue ==
    \A p \in Processors :
        proc[p].result = "Stats" =>
            /\ feedq = <<>>
            /\ FeedSenders = 0
            /\ Range(f_sent) \subseteq RecvdUids

\* C4 witness: a processor returned its Stats after two events were queued
C4_Witness ==
    /\ \E p \in Processors : proc[p].result = "Stats"
    /\ Len(f_sent) >= 2

\* C5: a loader thread exits only when the coordinator has dropped its
\* load-queue sender, every processor has exited and every ProcessedEvent sent
\* on the load-queue has been received by a loader; the coordinator joins the
\* loaders after every processor join and the drop, and when it terminates
\* every loader has exited with persist_processed_event finished for every item.
C5_LoadersDrainThenJoinLast ==
    /\ \A l \in Loaders :
         loader[l].pc = "done" =>
            /\ ~load_sendr
            /\ \A p \in Processors : proc[p].pc = "done"
            /\ loadq = <<>>
            /\ SentOkUids \subseteq TakenUids
    /\ Stmt = "join_loaders" => Passed("join_processors") /\ Passed("drop_load")
    /\ Exited =>
         /\ \A l \in Loaders : loader[l].pc = "done"
         /\ \A l \in Loaders : \A i \in DOMAIN l_taken[l] :
               l_taken[l][i].outcome # "persisting"

\* C5 witness: the coordinator terminated after the loaders received two items
C5_Witness ==
    /\ Exited
    /\ Cardinality(TakenUids) >= 2

\* C6: every ProcessedEvent ever put on the load-queue carries at least one
\* FlatMatch, and no send is made for an event whose scan failed or matched
\* no rule.
C6_ProcessedEventHasMatch ==
    /\ \A i \in DOMAIN loadq : Len(loadq[i].matches) >= 1
    /\ \A l \in Loaders : \A i \in DOMAIN l_taken[l] :
          Len(l_taken[l][i].proc_event.matches) >= 1
    /\ \A p \in Processors : \A i \in DOMAIN p_sent[p] :
          /\ p_sent[p][i].matches >= 1
          /\ scan_mem(p_sent[p][i].raw_content).ok
          /\ scan_mem(p_sent[p][i].raw_content).rules # <<>>

\* C6 witness: a ProcessedEvent is on the load-queue and a processor has
\* dropped an event that did not match
C6_Witness ==
    /\ loadq # <<>>
    /\ \E p \in Processors : proc[p].pc = "recv" /\ proc[p].stats.num_events > proc[p].stats.num_matches

\* the committed rows that transaction txn wrote to table
TxnRows(table, txn) == {r \in db[table] : r.txn = txn}

\* the store holds the whole triple of proc_event, written by txn
WholeTriple(proc_event, txn) ==
    /\ Cardinality(TxnRows("events", txn)) = 1
    /\ Cardinality(TxnRows("rule_matches", txn)) = Len(proc_event.matches)
    /\ \A e \in TxnRows("events", txn) :
         /\ e.row.raw_content = proc_event.event.raw_content
         /\ \A mi \in DOMAIN proc_event.matches :
              \E r \in TxnRows("rule_matches", txn) :
                 /\ r.row.rule_matched = proc_event.matches[mi].rule_name
                 /\ r.row.tags_matched = proc_event.matches[mi].tags
                 /\ Some(r.row.event_id) = e.row.id
                 /\ LET frags == {a \in TxnRows("ascii_matches", txn) :
                                     Some(a.row.match_id) = r.row.id}
                    IN  /\ Cardinality(frags) = Len(proc_event.matches[mi].data)
                        /\ {a.row.matched_string : a \in frags}
                              = Range(proc_event.matches[mi].data)
    /\ \A a \in TxnRows("ascii_matches", txn) :
         \E r \in TxnRows("rule_matches", txn) : Some(a.row.match_id) = r.row.id

NoRow(txn) ==
    /\ TxnRows("events", txn) = {}
    /\ TxnRows("rule_matches", txn) = {}
    /\ TxnRows("ascii_matches", txn) = {}

\* C7: for every ProcessedEvent handled by persist_processed_event the store
\* holds either the event row with all of its rule_matches rows and all of
\* their ascii_matches rows (the call committed), or no row of it (the call
\* is still running, or failed at the connection, an insert or the commit).
C7_WholeTripleOrNothing ==
    \A l \in Loaders : \A i \in DOMAIN l_taken[l] :
        LET t == l_taken[l][i]
            txn == [loader |-> l, uid |-> t.uid]
        IN  IF t.outcome = "committed" THEN WholeTriple(t.proc_event, txn) ELSE NoRow(txn)

\* C7 witness: one item is committed with two rule matches, another failed
\* after its rule_matches insert was done, and no transaction is open
C7_Witness ==
    /\ \E l \in Loaders : \E i \in DOMAIN l_taken[l] :
          l_taken[l][i].outcome = "committed" /\ Len(l_taken[l][i].proc_event.matches) = 2
    /\ \E l \in Loaders : \E i \in DOMAIN l_taken[l] : l_taken[l][i].outcome = "failed"
    /\ seqs.rule_matches > Cardinality(db.rule_matches)
    /\ \A l \in Loaders : loader[l].pc \in {"recv", "done"}

\* C8: every committed ascii_matches row references a committed rule_matches
\* row, every committed rule_matches row references a committed events row,
\* and the referenced row was written by the same transaction.
C8_ForeignKeysResolve ==
    /\ \A a \in db.ascii_matches :
         \E r \in db.rule_matches : r.row.id = Some(a.row.match_id) /\ r.txn = a.txn
    /\ \A r \in db.rule_matches :
         \E e \in db.events : e.row.id = Some(r.row.event_id) /\ e.txn = r.txn

\* C8 witness: two events are committed, one of them with a fragment
C8_Witness ==
    /\ Cardinality(db.events) >= 2
    /\ db.ascii_matches # {}
    /\ \E r \in db.rule_matches : r.row.event_id = 2

\* how often uid occurs in the histories h of the workers W
Occurrences(h, W, uid) ==
    Cardinality({wi \in UNION {{<<w, i>> : i \in DOMAIN h[w]} : w \in W} :
                    h[wi[1]][wi[2]] = uid})

\* C9: every Event put on the feed-queue is received by at most one processor
\* and every ProcessedEvent put on the load-queue by at most one loader, so no
\* ProcessedEvent is persisted more than once.
C9_AtMostOneWorkerPerItem ==
    \A uid \in AllUids :
        /\ Occurrences(p_recvd, Processors, uid) <= 1
        /\ Occurrences([l \in Loaders |-> Uids(l_taken[l])], Loaders, uid) <= 1
        /\ Cardinality({e \in db.events : e.row.uid = uid}) <= 1

\* C9 witness: two processors have each received an event and two loaders
\* have each committed a ProcessedEvent
C9_Witness ==
    /\ \A p \in {1, 2} : p_recvd[p] # <<>>
    /\ \A l \in {1, 2} : l_taken[l] # <<>>
    /\ Cardinality(db.events) = 2

\* the events of processor p that are on the load-queue, in queue order
QueuedBy(p) ==
    SelectSeq(Uids([i \in DOMAIN loadq |-> loadq[i].event]),
              LAMBDA uid : uid \in Range(Uids(SentOk(p))))

\* C10: for each processor, the ProcessedEvents it sent are, in the order sent
\* and in the order they stand on the load-queue, a subsequence of the events
\* it received from the feed-queue.
C10_SendsKeepReceiveOrder ==
    \A p \in Processors :
        /\ IsSubseq(Uids(p_sent[p]), p_recvd[p])
        /\ IsSubseq(QueuedBy(p), p_recvd[p])

\* C10 witness: one processor received two events and sent both, and both
\* are on the load-queue
C10_Witness ==
    \E p \in Processors :
        /\ Len(p_recvd[p]) >= 2
        /\ Len(p_sent[p]) = 2
        /\ Len(QueuedBy(p)) = 2

\* C11: a step in which a processor's send on the load-queue fails adds
\* exactly one to that worker's send-failure counter, does not end the worker,
\* and leaves it at the feed-queue receive for its next event.
C11_SendFailureCountedWorkerGoesOn ==
    [][\A p \in Processors :
          (/\ Len(p_sent'[p]) = Len(p_sent[p]) + 1
           /\ ~p_sent'[p][Len(p_sent'[p])].ok)
             => /\ proc'[p].stats.num_failures = proc[p].stats.num_failures + 1
                /\ proc'[p].pc = "recv"
                /\ proc'[p].result = "running"]_vars

\* C11 witness: a processor whose first send failed has counted one failure
\* and has received the event that came after
C11_Witness ==
    \E p \in Processors :
        /\ p_sent[p] # <<>>
        /\ ~p_sent[p][1].ok
        /\ proc[p].stats.num_failures = 1
        /\ \E i \in DOMAIN p_recvd[p] : p_recvd[p][i] > p_sent[p][1].uid

\* the QUIT payloads popped so far by all feeders
RECURSIVE SumQuits(_)
SumQuits(F) ==
    IF F = {} THEN 0
    ELSE LET f == CHOOSE f \in F : TRUE IN feeder[f].quits + SumQuits(F \ {f})
QuitsPopped == SumQuits(Feeders)

\* a QUIT payload stops the feeder that popped it, and no feeder pops two
QuitStopsItsPopper ==
    \A f \in Feeders :
        /\ feeder[f].quits <= 1
        /\ feeder[f].quits = 1 => feeder[f].pc \in {"handle", "done"}
        /\ (feeder[f].quits = 1 /\ feeder[f].pc = "done") => feeder[f].result = "Ok"

\* C12 as claimed: a QUIT payload stops exactly the feeder that popped it, and
\* all Nf feeders have exited only after Nf QUIT payloads have been popped.
C12_AllExitedOnlyAfterNfQuits ==
    /\ QuitStopsItsPopper
    /\ (\A f \in Feeders : feeder[f].pc = "done") => QuitsPopped = num_feeders

\* C12 as amended: a QUIT payload stops exactly the feeder that popped it; a
\* feeder exits either on the QUIT it popped or, having popped nothing, because
\* get_connection failed; so the feeders that got a connection have all exited
\* only after as many QUIT payloads as there are such feeders have been popped.
C12_QuitStopsOnlyItsPopper ==
    /\ QuitStopsItsPopper
    /\ \A f \in Feeders :
          feeder[f].pc = "done" =>
             \/ feeder[f].result = "Ok" /\ feeder[f].quits = 1
             \/ feeder[f].result = "Err" /\ feeder[f].quits = 0 /\ feeder[f].last = NoMsg
    /\ (\A f \in Feeders : feeder[f].pc = "done") =>
          QuitsPopped = Cardinality({f \in Feeders : feeder[f].result = "Ok"})

\* C12 witness: one feeder has exited on a QUIT and the other feeder has since
\* popped an event and put it on the feed-queue
C12_Witness ==
    \E f, g \in Feeders :
        /\ feeder[f].pc = "done" /\ feeder[f].quits = 1
        /\ feeder[g].pc = "pop"
        /\ feeder[g].last.uid > feeder[f].last.uid
        /\ feeder[g].last.uid \in Range(f_sent)

\* the envelope has a string field that is missing or empty, a size that is
\* missing or negative, or a timestamp that is missing or does not parse
InvalidEnvelope(e) ==
    \/ \E k \in StringFields : e[k].t # "str" \/ e[k] = JStr("")
    \/ e.size.t # "int" \/ (e.size.t = "int" /\ e.size.v < 0)
    \/ \E k \in TimeFields : e[k].t # "str" \/ (e[k].t = "str" /\ e[k].v \notin WellFormed)

\* C13 as claimed: an envelope with a negative size, an unparsable timestamp or
\* a missing or empty string field is never pushed onto the feed-queue, and an
\* envelope with size 0 and otherwise valid fields is pushed.
C13_DecoderRejectsInvalid ==
    \A f \in Feeders :
        LET e == feeder[f].last
        IN  (e # NoMsg /\ IsJson(e) /\ feeder[f].pc # "handle") =>
                IF InvalidEnvelope(e) THEN e.uid \notin Range(f_sent)
                ELSE e.uid \in Range(f_sent)

\* the sum of a Stats counter over the processors
RECURSIVE SumStat(_, _)
SumStat(P, counter) ==
    IF P = {} THEN 0
    ELSE LET p == CHOOSE p \in P : TRUE IN proc[p].stats[counter] + SumStat(P \ {p}, counter)

\* C14: at every point of a processor's run and in the Stats it returns, its
\* events-matched counter is at most its events-processed counter, and so is
\* the sum over all processors.
C14_MatchedAtMostProcessed ==
    /\ \A p \in Processors : proc[p].stats.num_matches <= proc[p].stats.num_events
    /\ SumStat(Processors, "num_matches") <= SumStat(Processors, "num_events")

\* C14 witness: a processor returned Stats with two events, one of them matched
C14_Witness ==
    \E p \in Processors :
        /\ proc[p].result = "Stats"
        /\ proc[p].stats.num_events = 2
        /\ proc[p].stats.num_matches = 1

\* C15: when no file under the rule directory has the extension yar, every
\* processor thread that has started construction ends with the NoYaraRules
\* error as its join result, without ever receiving an event or returning Stats.
C15_NoRuleFilesIsNoRulesError ==
    (~\E file \in yara_dir : file.ext = "yar") =>
        \A p \in Processors :
            /\ proc[p].pc \in {"idle", "from_dir", "done"}
            /\ proc[p].pc = "done" => proc[p].result = "NoYaraRulesError"
            /\ proc[p].stats = Stats_new

\* C15 witness: the coordinator has joined processors that ended with NoRules
C15_Witness ==
    /\ Passed("join_processors")
    /\ \A p \in Processors : proc[p].result = "NoYaraRulesError"

AllNoRules == \A p \in Processors : proc[p].result = "NoYaraRulesError"

\* C16 as claimed: if every processor fails matcher construction with NoRules,
\* the coordinator never completes its shutdown sequence.
C16_AllNoRulesNeverCompletes == AllNoRules => ~Passed("join_loaders")

\* C16 as amended: if every processor fails matcher construction with NoRules,
\* the pipeline does not hang: the coordinator joins the processors, drops its
\* load-queue sender, joins the loaders and returns.
C16_AllNoRulesStillCompletes == AllNoRules ~> (Passed("join_loaders") /\ Exited)

\* C16 witness: the coordinator has returned after every processor failed
\* with NoRules
C16_Witness ==
    /\ AllNoRules
    /\ Passed("join_processors") /\ ~load_sendr /\ Passed("join_loaders")
    /\ Exited

\* C17 as claimed: each of start_feeders, start_processors and start_loaders
\* refuses a count of zero: the coordinator never gets past the call.
C17_EveryStartRefusesZero ==
    /\ num_feeders = 0 => ~Passed("start_feeders")
    /\ num_processors = 0 => ~Passed("start_processors")
    /\ num_loaders = 0 => ~Passed("start_loaders")

\* C17 as amended: of the three start functions only start_loaders refuses a
\* count of zero, by a panic before any loader runs; given zero, start_feeders
\* and start_processors return an empty pool and the coordinator goes on.
C17_OnlyStartLoadersRefusesZero ==
    /\ num_loaders = 0 => ~Passed("start_loaders")
    /\ (num_loaders = 0 /\ Exited) => Panicked
    /\ Panicked => /\ num_loaders = 0
                   /\ Passed("start_feeders") /\ Passed("start_processors")
                   /\ Exited

\* C17 witness: with no feeder and no processor the coordinator started its
\* loaders and ran its shutdown sequence to the end
C17_Witness ==
    /\ num_feeders = 0 /\ num_processors = 0 /\ num_loaders > 0
    /\ Passed("join_loaders")
    /\ ~Panicked /\ Exited

\* the configuration load has run
Loaded == cfg # None
WorkerKeys == {"processors", "feeders", "loaders"}

\* C18 as claimed: loading a configuration in which any of workers.processors,
\* workers.feeders, workers.loaders is an integer less than or equal to 0
\* returns an error and produces no configuration, whatever the other two are.
C18_NonPositiveCountIsError ==
    (/\ Loaded
     /\ yml.workers.t = "hash"
     /\ \E k \in WorkerKeys : yml.workers[k].t = "int" /\ yml.workers[k].v <= 0)
        => ~cfg.ok

\* C19: for every number N >= 1 of logical CPUs, `workers: auto` yields
\* processors = max(1, floor(N/2)), feeders = max(1, floor(N/4)) and
\* loaders = max(1, floor(N/4)); N = 8 gives 4, 2, 2, N = 1 gives 1, 1, 1, and
\* no count is 0.
C19_AutoCounts ==
    (Loaded /\ yml.workers = YStr("auto")) =>
        /\ cfg.ok
        /\ LET w == cfg.val.worker_cfg
               max1(x) == IF x >= 1 THEN x ELSE 1
           IN  /\ w.num_processors = max1(cpus \div 2)
               /\ w.num_feeders = max1(cpus \div 4)
               /\ w.num_loaders = max1(cpus \div 4)
               /\ cpus = 8 => w = WorkerCfg(4, 2, 2)
               /\ cpus = 1 => w = WorkerCfg(1, 1, 1)
               /\ w.num_processors # 0 /\ w.num_feeders # 0 /\ w.num_loaders # 0

\* C19 witness: `workers: auto` was loaded on a machine with 8 logical CPUs
C19_Witness ==
    /\ Loaded
    /\ yml.workers = YStr("auto")
    /\ cpus = 8
    /\ cfg.ok /\ cfg.val.worker_cfg.num_processors = 4

\* C20: a `workers` key whose value is a string other than `auto` makes the
\* configuration load fail with BadWorkersKeyValue (and main exit); the string
\* `auto` is accepted.
C20_OnlyAutoAccepted ==
    (Loaded /\ yml.workers.t = "str") =>
        IF yml.workers.v = "auto" THEN cfg.ok
        ELSE /\ ~cfg.ok
             /\ cfg.err = "BadWorkersKeyValue"
             /\ cfg.arg = yml.workers.v
             /\ Exited

\* C20 witness: `workers: something_else` was loaded and refused
C20_Witness ==
    /\ Loaded
    /\ yml.workers = YStr("something_else")
    /\ ~cfg.ok

C22_AverageIsTotalOverEvents ==
    \A p \in Processors :
        proc[p].printed.some =>
            LET out == proc[p].printed.v
            IN  /\ out.num_events > 0 =>
                       /\ out.avg_proc_time = out.overall_proc_time \div out.num_events
                       /\ out.avg_proc_time * out.num_events <= out.overall_proc_time
                       /\ (out.avg_proc_time + 1) * out.num_events > out.overall_proc_time
                /\ out.num_events = 0 => out.avg_proc_time = 0
                /\ (out.overall_proc_time = 10 /\ out.num_events = 5) => out.avg_proc_time = 2

\* C22 witness: the average of 11 time units over 5 events was asked for
C22_Witness ==
    /\ proc[1].printed.some
    /\ proc[1].printed.v.overall_proc_time = 11
    /\ proc[1].printed.v.num_events = 5
    /\ proc[1].printed.v.avg_proc_time = 2

\* C23 as claimed: when the external queue delivers one valid matching event
\* followed by QUIT to a single feeder, the feeder exits, the coordinator then
\* closes the feed-queue and the load-queue in that order, every feeder,
\* processor and loader thread is joined, and the valid event (with its rule
\* matches and fragments) has been committed to the store by the time the
\* coordinator terminates.
C23_ScenarioEventCommitted ==
    (/\ Exited /\ ~Panicked
     /\ \A p \in Processors : proc[p].result = "Stats")
        => /\ \A f \in Feeders : feeder[f].pc = "done" /\ feeder[f].quits = 1
           /\ Passed("drop_feed") /\ Passed("drop_load")
           /\ \A p \in Processors : proc[p].pc = "done"
           /\ \A l \in Loaders : loader[l].pc = "done"
           /\ \E e \in db.events :
                  /\ e.row.raw_content = "pw: helloworld"
                  /\ \E r \in db.rule_matches : Some(r.row.event_id) = e.row.id

\* C24 as claimed: when the external-queue client becomes permanently
\* unusable (every subsequent pop fails), the feeder worker returns an error
\* and exits; it does not retry the pop forever.
C24_UnusableClientEndsFeeder ==
    \A f \in 1..NumDocFeeders :
        (feeder[f].conn = "dead" /\ feeder[f].pc = "pop") ~> (feeder[f].pc = "done")

\* C28: a failed pop from the external queue does not terminate the feeder
\* worker: the failure is logged and the worker pops again, and payloads
\* popped after the failure are still decoded and forwarded.
C28_PopFailureIsSurvived ==
    \A f \in Feeders :
        /\ feeder[f].errs = "failed" =>
               /\ feeder[f].pc = "pop"
               /\ feeder[f].result = "running"
        /\ (/\ feeder[f].errs = "recovered"
            /\ feeder[f].pc # "handle"
            /\ from_json_str(feeder[f].last).ok
            /\ ~feeder[f].send_failed)
               => feeder[f].last.uid \in Range(f_sent)

\* C28 witness: a feeder whose pop had failed has popped a valid payload
\* afterwards and has put its event on the feed-queue
C28_Witness ==
    \E f \in Feeders :
        /\ feeder[f].errs = "recovered"
        /\ feeder[f].pc = "pop"
        /\ from_json_str(feeder[f].last).ok
        /\ feeder[f].last.uid \in Range(f_sent)
        /\ \E i \in DOMAIN feedq : feedq[i].uid = feeder[f].last.uid

\* the payload feeder f popped last is QUIT
QuitLast(f) == feeder[f].last # NoMsg /\ is_quit(feeder[f].last)

\* C29: a feeder thread leaves its listen loop only if a QUIT payload is
\* received; no other payload, no decode failure, no pop failure and no
\* feed-queue send failure makes it leave the loop.
C29_LoopLeftOnlyOnQuit ==
    \A f \in Feeders :
        /\ (feeder[f].pc = "done" /\ feeder[f].conn # "none") =>
               /\ QuitLast(f)
               /\ feeder[f].quits = 1
               /\ feeder[f].result = "Ok"
        /\ (feeder[f].conn # "none" /\ ~QuitLast(f)) =>
               feeder[f].pc \in {"pop", "handle"}

\* C29 witness: a feeder that had a pop fail and an event it could not send
\* has left its loop on the QUIT; the other feeder never entered the loop
C29_Witness ==
    \E f \in Feeders :
        /\ feeder[f].pc = "done"
        /\ QuitLast(f)
        /\ feeder[f].errs = "recovered"
        /\ feeder[f].send_failed
        /\ \E g \in Feeders : g # f /\ feeder[g].conn = "none" /\ Len(f_sent) = 0

\* C25: in the pipeline as assembled by main a processor's send on the
\* load-queue never fails: the coordinator keeps its own load-queue receiver
\* until main returns, so the load-queue has a live receiver whenever a
\* processor runs, whether or not a loader thread is alive, and every
\* processor's send-failure counter is 0 when it joins.
C25_LoadSendNeverFails ==
    /\ \A p \in Processors :
          /\ \A i \in DOMAIN p_sent[p] : p_sent[p][i].ok
          /\ proc[p].stats.num_failures = 0
          /\ ProcLive(p) => (~Exited /\ LoadReceivers > 0)
    /\ \A p \in Processors :
          proc[p].printed.some => proc[p].printed.v.num_failures = 0

\* C25 witness: a processor that sent a ProcessedEvent while no loader thread
\* was alive has been joined with no failure counted
C25_Witness ==
    \E p \in Processors :
        /\ proc[p].printed.some
        /\ proc[p].printed.v.num_matches >= 1
        /\ proc[p].printed.v.num_failures = 0
        /\ \E l \in Loaders : loader[l].pc = "recv"
        /\ Len(loadq) >= 1

MissingUrl(e) == e # NoMsg /\ IsJson(e) /\ e.url = JNull

\* C31: a payload that fails to decode (for example one missing `url`) is
\* logged and dropped: nothing is pushed onto the feed-queue for it, the
\* feeder keeps running, and the next payload is popped and handled normally.
C31_DecodeFailureIsDropped ==
    \A f \in Feeders :
        LET e == feeder[f].last
        IN  /\ MissingUrl(e) =>
                   /\ ~from_json_str(e).ok
                   /\ e.uid \notin Range(f_sent)
                   /\ \A i \in DOMAIN feedq : feedq[i].uid # e.uid
                   /\ feeder[f].pc \in {"handle", "pop"}
                   /\ feeder[f].result = "running"
            /\ (e # NoMsg /\ IsJson(e) /\ ~MissingUrl(e) /\ feeder[f].pc = "pop") =>
                   /\ e.uid \in Range(f_sent)
                   /\ \E i \in DOMAIN feedq : feedq[i].uid = e.uid

\* C31 witness: the only feeder that got a connection popped two payloads and
\* no QUIT, and only the second is on the feed-queue: it dropped the first and
\* went on to pop and forward the next
C31_Witness ==
    \E f, g \in Feeders :
        /\ g # f /\ feeder[g].conn = "none"
        /\ feeder[f].pc = "pop" /\ feeder[f].quits = 0
        /\ feeder[f].last.uid = 2
        /\ f_sent = <<2>>
        /\ Len(feedq) = 1 /\ feedq[1].uid = 2

\* processor p takes its next event off the feed-queue in this step
Receives(p) == proc[p].pc = "recv" /\ proc'[p].pc = "process"
\* processor p finishes the loop body for the event it holds in this step
Finishes(p) == proc[p].pc = "process" /\ proc'[p].pc # "process"
\* the three counters of p's Stats are left as they are by this step
CountersKept(p) ==
    /\ proc'[p].stats.num_events = proc[p].stats.num_events
    /\ proc'[p].stats.num_matches = proc[p].stats.num_matches
    /\ proc'[p].stats.num_failures = proc[p].stats.num_failures

\* C32: when the matcher returns an error for an event, the processor still
\* counts the event as processed (events-seen +1 at the receive, and the
\* elapsed time added exactly once), does not increment the match counter,
\* sends nothing on the load-queue, and continues with the next event.
C32_MatcherErrorCountsEventOnly ==
    [][\A p \in Processors :
          /\ Receives(p) =>
                /\ proc'[p].stats = inc_events(proc[p].stats)
                /\ proc'[p].whoops = proc[p].whoops
          /\ (Finishes(p) /\ ~process(proc[p].message.raw_content).ok) =>
                /\ proc'[p].whoops = proc[p].whoops + 1
                /\ CountersKept(p)
                /\ \E elapsed \in Elapsed :
                      proc'[p].stats.overall_proc_time =
                          proc[p].stats.overall_proc_time + elapsed
                /\ loadq' = loadq
                /\ p_sent'[p] = p_sent[p]
                /\ proc'[p].pc = "recv"
                /\ proc'[p].result = "running"]_vars

\* C32 witness: a processor for which the matcher failed once has counted two
\* events, no match and the time of one pass, and holds its next event
C32_Witness ==
    \E p \in Processors :
        /\ proc[p].whoops = 1
        /\ proc[p].pc = "process"
        /\ proc[p].stats.num_events = 2
        /\ proc[p].stats.num_matches = 0
        /\ proc[p].stats.overall_proc_time \in Elapsed
        /\ p_sent[p] = <<>>

\* no row of the store is of an event that matches no rule
NoRowOfUnmatched ==
    \A e \in db.events :
        LET r == process(e.row.raw_content) IN ~(r.ok /\ r.m = <<>>)

\* C33: for an event whose scan returns an empty match list the processor
\* increments events-processed by one (at the receive), leaves events-matched
\* and send-failures unchanged, sends nothing on the load-queue, and no row is
\* written for that event.
C33_EmptyMatchListIsSilent ==
    /\ []NoRowOfUnmatched
    /\ [][\A p \in Processors :
             (/\ Finishes(p)
              /\ process(proc[p].message.raw_content).ok
              /\ process(proc[p].message.raw_content).m = <<>>)
                => /\ CountersKept(p)
                   /\ proc[p].stats.num_events >= 1
                   /\ proc'[p].whoops = proc[p].whoops
                   /\ loadq' = loadq
                   /\ p_sent'[p] = p_sent[p]
                   /\ db' = db
                   /\ proc'[p].pc = "recv"]_vars

\* C33 witness: main has returned, a processor has handled two events without
\* a match and without a matcher error, and the store is empty
C33_Witness ==
    /\ Exited
    /\ db.events = {}
    /\ \E p \in Processors :
          /\ proc[p].stats.num_events = 2
          /\ proc[p].stats.num_matches = 0
          /\ proc[p].whoops = 0

\* loader l is between two items, or not running
BetweenItems(l) == loader[l].pc \in {"idle", "recv", "done"}
\* a loader holds a connection only inside persist_processed_event, and a
\* transaction only on a connection it holds
ConnectionHeldOnlyInsideCall ==
    \A l \in Loaders :
        /\ BetweenItems(l) => (~loader[l].client /\ ~loader[l].trans /\ loader[l].pending = <<>>)
        /\ loader[l].trans => loader[l].client
\* the call of persist_processed_event that loader l is in fails in this step
PersistFails(l) ==
    /\ ~BetweenItems(l)
    /\ Len(l_taken'[l]) = Len(l_taken[l])
    /\ l_taken'[l][Len(l_taken[l])].outcome = "failed"

\* C34: any store error while persisting one ProcessedEvent (acquiring a
\* connection, opening the transaction, any insert, or the commit) drops only
\* that item: the connection, if acquired, is returned to the pool when the
\* call returns, the loader does not retry, does not terminate, and goes on to
\* receive the next ProcessedEvent; each loader holds at most one connection
\* at a time.
C34_StoreErrorDropsOnlyItsItem ==
    /\ []ConnectionHeldOnlyInsideCall
    /\ [][\A l \in Loaders :
             PersistFails(l) =>
                /\ loader'[l] = LoaderIdle
                /\ loader'[l].pc = "recv" /\ ~loader'[l].client
                /\ db' = db
                /\ loadq' = loadq
                /\ NoRow([loader |-> l, uid |-> l_taken[l][Len(l_taken[l])].uid])'
                /\ \A k \in Loaders \ {l} : loader'[k] = loader[k] /\ l_taken'[k] = l_taken[k]]_vars

\* C34 witness: a loader whose first item failed has committed the item it received next and holds no connection
C34_Witness ==
    \E l \in Loaders :
        /\ Len(l_taken[l]) = 2
        /\ l_taken[l][1].outcome = "failed"
        /\ l_taken[l][2].outcome = "committed"
        /\ loader[l].pc = "recv" /\ ~loader[l].client
        /\ Cardinality(db.events) = 1

\* the positions of the rule_matches statements among the statements issued
RulePositions(pend) == {i \in 1..Len(pend) : pend[i].table = "rule_matches"}
\* the rule_matches statement is the k-th of them
Rank(pend, j) == Cardinality({i \in RulePositions(pend) : i <= j})
\* the ascii_matches statements that follow the rule_matches statement at j
\* before the next rule_matches statement
FragmentsAfter(pend, j) ==
    {i \in (j + 1)..Len(pend) : \A k \in (j + 1)..i : pend[k].table = "ascii_matches"}
\* the statements issued so far on loader l's transaction follow the order
OrderKept(l) ==
    LET pend == loader[l].pending
        pe == loader[l].proc_event
    IN  pend # <<>> =>
          /\ pend[1].table = "events"
          /\ pend[1].row.row = [pe.event EXCEPT !.id = pend[1].row.row.id]
          /\ \A i \in 2..Len(pend) : pend[i].table \in {"rule_matches", "ascii_matches"}
          /\ pend[Len(pend)].table = "events" => pe.matches = <<>> \/ loader[l].pc = "insert_rule"
          /\ Len(pend) > 1 => pend[2].table = "rule_matches"
          /\ \A j \in RulePositions(pend) :
                LET k == Rank(pend, j)
                    frags == FragmentsAfter(pend, j)
                IN  /\ k <= Len(pe.matches)
                    /\ pend[j].row.row.rule_matched = pe.matches[k].rule_name
                    /\ pend[j].row.row.event_id = pend[1].row.row.id.v
                    /\ Cardinality(frags) <= Len(pe.matches[k].data)
                    /\ \A i \in frags :
                          /\ pend[i].row.row.matched_string = pe.matches[k].data[i - j]
                          /\ pend[i].row.row.match_id = pend[j].row.row.id.v
                    \* the next rule_matches statement comes after all fragments
                    /\ j + Cardinality(frags) < Len(pend) =>
                          Cardinality(frags) = Len(pe.matches[k].data)
InsertOrderKept == \A l \in Loaders : OrderKept(l)
RECURSIVE StatementCount(_)
StatementCount(matches) ==
    IF matches = <<>> THEN 0
    ELSE 1 + Len(Head(matches).data) + StatementCount(Tail(matches))
\* the commit is the last statement: it runs when every insert has been issued
\* and ends the call
CommitLast ==
    db' # db =>
        \E l \in Loaders :
            /\ loader[l].pc = "commit"
            /\ Len(loader[l].pending) = 1 + StatementCount(loader[l].proc_event.matches)
            /\ db' = commit(db, loader[l].pending)
            /\ loader'[l] = LoaderIdle

\* C35: inside one transaction the inserts are issued in a fixed order: the
\* event row first, then for each FlatMatch in list order its rule_matches row
\* followed by one ascii_matches row per fragment in fragment order, and the
\* commit last; no rule_matches insert precedes the event insert and no
\* ascii_matches insert precedes its rule_matches row.
C35_InsertOrder ==
    /\ []InsertOrderKept
    /\ [][CommitLast]_vars

\* a transaction with two rules, the first with two fragments, is ready to commit
C35_Witness ==
    \E l \in Loaders :
        /\ loader[l].pc = "commit"
        /\ Len(loader[l].pending) = 6
        /\ Len(loader[l].proc_event.matches) = 2
        /\ loader[l].proc_event.matches[1].data = <<"a", "b">>

\* the ProcessedEvents the processors have built: queued or taken by a loader
Built ==
    Range(loadq) \cup UNION {{l_taken[l][i].proc_event : i \in DOMAIN l_taken[l]} : l \in Loaders}
\* the fragments the engine reported for a rule, in the engine's order
EngineOrder(strings) ==
    LET pos == {<<s, k>> : s \in DOMAIN strings, k \in 1..MaxMatches + 1}
        real == {q \in pos : q[2] <= Len(strings[q[1]].matches)}
        before(q) == {r \in real : r[1] < q[1] \/ (r[1] = q[1] /\ r[2] <= q[2])}
    IN  [n \in 1..Cardinality(real) |->
            LET q == CHOOSE q \in real : Cardinality(before(q)) = n
            IN  strings[q[1]].matches[q[2]]]
Decodes(b) == b.utf8
\* the FlatMatch the claim describes for a rule
KeptOf(rule) ==
    LET valid == SelectSeq(EngineOrder(rule.strings), Decodes)
    IN  [rule_name |-> rule.namespace \o "::" \o rule.identifier,
         tags |-> rule.tags,
         data |-> [n \in DOMAIN valid |-> valid[n].text]]

\* C38: the conversion to FlatMatch keeps, in the engine's order, exactly the
\* fragments that decode as UTF-8: an invalid fragment is dropped without
\* dropping the others of its match, a string with no matches contributes
\* nothing, repeated fragments are all kept, and the rule name is
\* <namespace>::<identifier>.
C38_ConversionKeepsValidFragments ==
    \A pe \in Built :
        pe.event.raw_content = "probe" =>
            LET rules == ProbeAnswer(yara_dir)
            IN  pe.matches = [i \in DOMAIN rules |-> KeptOf(rules[i])]

\* a rule with a valid fragment, an invalid one and a repeat of the valid one
\* has been converted
C38_Witness ==
    /\ ProbeAnswer(yara_dir) =
           <<Rule("default", "MyPass", <<>>,
                  <<YrString(<<Bytes("a"), BadBytes("x")>>), YrString(<<Bytes("a")>>)>>)>>
    /\ loadq # <<>>
    /\ loadq[1].matches[1].data = <<"a", "a">>
    /\ loadq[1].matches[1].rule_name = "default::MyPass"

\* a rule that fired with no fragment that survives the conversion
Hollow(rule) ==
    \A s \in DOMAIN rule.strings :
        \A k \in DOMAIN rule.strings[s].matches : ~rule.strings[s].matches[k].utf8
\* the rules of the engine's answer for "probe" that are hollow
HollowRules == {i \in DOMAIN ProbeAnswer(yara_dir) : Hollow(ProbeAnswer(yara_dir)[i])}
\* a processor that finishes the probe event counts it as matched and sends it,
\* the hollow rules as FlatMatches without fragments
HollowIsSent(p) ==
    /\ proc'[p].stats.num_matches = proc[p].stats.num_matches + 1
    /\ proc'[p].stats.num_failures = proc[p].stats.num_failures
    /\ Len(loadq') = Len(loadq) + 1
    /\ LET pe == loadq'[Len(loadq')]
       IN  /\ pe.event = proc[p].message
           /\ Len(pe.matches) = Len(ProbeAnswer(yara_dir))
           /\ \A h \in HollowRules : pe.matches[h].data = <<>>
\* a committed probe event has, for each hollow rule, a rule_matches row that
\* no ascii_matches row refers to
HollowIsCommitted ==
    \A l \in Loaders : \A i \in DOMAIN l_taken[l] :
        l_taken[l][i].outcome = "committed" /\ l_taken[l][i].proc_event.event.raw_content = "probe" =>
            \A h \in HollowRules :
                \E r \in TxnRows("rule_matches", [loader |-> l, uid |-> l_taken[l][i].uid]) :
                    /\ r.row.rule_matched = l_taken[l][i].proc_event.matches[h].rule_name
                    /\ \A a \in db.ascii_matches : a.row.match_id # r.row.id.v

\* C39: a rule that fired but whose fragments are all dropped or absent still
\* yields a FlatMatch with an empty fragment list: the event counts as matched,
\* a ProcessedEvent is sent, and the loader commits a rule_matches row with
\* zero ascii_matches rows.
C39_HollowRuleIsStillAMatch ==
    /\ []HollowIsCommitted
    /\ [][\A p \in Processors :
            Finishes(p) /\ proc[p].message.raw_content = "probe" /\ HollowRules # {}
                => HollowIsSent(p)]_vars

\* the only rule's only fragment was dropped, and its rule_matches row is
\* committed with no ascii_matches row at all
C39_Witness ==
    /\ ProbeAnswer(yara_dir) =
           <<Rule("default", "MyPass", <<>>, <<YrString(<<BadBytes("x")>>)>>)>>
    /\ \E l \in Loaders : l_taken[l] # <<>> /\ l_taken[l][1].outcome = "committed"
    /\ Cardinality(db.rule_matches) = 1
    /\ db.ascii_matches = {}
    /\ \E p \in Processors : proc[p].stats.num_matches = 1

\* the i32 that has the low I32Bits bits of x
LowBits(x) == CHOOSE y \in I32Min..I32Max : (x - y) % (2 ^ I32Bits) = 0
\* the count read for key k of the workers block: its integer, truncated, or
\* the default when the key holds no integer
CountRead(k, default) ==
    IF yml.workers[k].t = "int" THEN LowBits(yml.workers[k].v) ELSE default

\* C40: WorkerCfg::from_block converts each count from 64-bit to 32-bit signed
\* by truncation before the positivity check: the block is accepted exactly
\* when every truncated count is positive and the truncated counts are the
\* configuration; 2^32 + 1 is accepted as 1 and 2^31 is rejected as non-positive
\* (2^I32Bits + 1 and 2^(I32Bits - 1) at the modelled width).
C40_TruncationBeforePositivityCheck ==
    (Loaded /\ yml.readable /\ yml.text = "document" /\ yml.workers.t = "hash") =>
        LET processors == CountRead("processors", DEFAULT_NUM_PROCESSORS)
            feeders == CountRead("feeders", DEFAULT_NUM_FEEDERS)
            loaders == CountRead("loaders", DEFAULT_NUM_LOADERS)
        IN  /\ cfg.ok <=> (processors > 0 /\ feeders > 0 /\ loaders > 0)
            /\ cfg.ok => cfg.val.worker_cfg = WorkerCfg(processors, feeders, loaders)
            /\ ~cfg.ok => cfg.err = "NegativeWorkersError"
            /\ (\A k \in WorkerKeys : yml.workers[k] = YInt(2 ^ I32Bits + 1)) =>
                    cfg.ok /\ cfg.val.worker_cfg = WorkerCfg(1, 1, 1)
            /\ (\E k \in WorkerKeys : yml.workers[k] = YInt(2 ^ (I32Bits - 1))) => ~cfg.ok

\* a count of 2^I32Bits + 1 was loaded as 1, next to two small counts
C40_Witness ==
    /\ Loaded
    /\ yml = YamlFile(TRUE, "document", YHash(YInt(2 ^ I32Bits + 1), YInt(2), YInt(3)))
    /\ cfg.ok
    /\ cfg.val.worker_cfg = WorkerCfg(1, 2, 3)

\* C36: sends on both queues never block, so the coordinator's wait for the
\* processors while it still holds the load-queue sender cannot deadlock:
\* every processor that built its matcher finishes once the feed-queue is
\* closed and drained, even if no loader ever receives an item.
C36_ProcessorsFinishWithoutLoaders ==
    \A p \in 1..NumProcessors :
        (proc[p].pc \in {"recv", "process"} /\ FeedSenders = 0) ~> (proc[p].pc = "done")

\* both processors have returned their statistics while the coordinator still
\* holds the load-queue sender and no loader has received any of the items
\* they sent
C36_Witness ==
    /\ \A p \in Processors : proc[p].pc = "done" /\ proc[p].result = "Stats"
    /\ load_sendr
    /\ loadq # <<>>
    /\ \A l \in Loaders : l_taken[l] = <<>>

\* processor p panicked or returned an error
Failed(p) == proc[p].pc = "done" /\ proc[p].result # "Stats"
\* the coordinator's shutdown steps come in their order
ShutdownOrder ==
    /\ Passed("join_processors") => \A p \in Processors : proc[p].pc = "done"
    /\ ~load_sendr => Passed("join_processors")
    /\ Passed("join_loaders") => ~load_sendr /\ \A l \in Loaders : loader[l].pc = "done"

\* C37: a processor thread that panics or returns an error never prevents the
\* coordinator from finishing shutdown: once the feed-queue is closed the
\* coordinator still joins every remaining processor handle, then drops the
\* load sender, then joins the loaders, and returns.
C37_FailedProcessorDoesNotBlockShutdown ==
    /\ []ShutdownOrder
    /\ \A p \in 1..NumProcessors :
          (Failed(p) /\ FeedSenders = 0)
              ~> (Passed("join_processors") /\ Passed("join_loaders") /\ Exited /\ ~Panicked)

\* one processor panicked, the other returned an error, and the coordinator
\* has joined both, dropped the load sender, joined the loader and returned
C37_Witness ==
    /\ \E p, q \in Processors :
          proc[p].result = "panicked" /\ proc[q].result \in {"NoYaraRulesError", "YaraError"}
    /\ Passed("join_processors") /\ ~load_sendr /\ Passed("join_loaders")
    /\ Exited /\ ~Panicked

====
